---------------------------- MODULE Spec2Model ----------------------------
(***************************************************************************)
(* Contact & task manager: JSON-file backed record stores, the contact and *)
(* task services on top of them, and the HTTP route handlers that call the *)
(* services.                                                               *)
(*                                                                         *)
(* JavaScript strings are sequences of one-character strings, so that      *)
(* length, trim and the validators' regular expressions are computed. A    *)
(* JavaScript value is a record [t, s]: t is its kind and s its text.      *)
(* Error messages are sequences of text segments; String.includes on a     *)
(* message is segment membership.                                          *)
(***************************************************************************)
EXTENDS Integers, Sequences, FiniteSets, TLC

(***************************************************************************)
(* Bounds of the model                                                     *)
(***************************************************************************)
\* ids are assigned while the next id stays within MaxId
MaxId == 2
\* the clock stops advancing at MaxTime
MaxTime == 1
\* the number of calls served in one run
MaxCalls == 3
\* the longest array given to sortContacts
MaxSorted == 3
\* the number of calls, counted from the first, whose write can fail
MaxFaulty == 1

(***************************************************************************)
(* JavaScript values and strings                                           *)
(***************************************************************************)
Str(chars) == [t |-> "string", s |-> chars]
Num(chars) == [t |-> "number", s |-> chars]
Undefined == [t |-> "undefined", s |-> <<>>]
Null == [t |-> "null", s |-> <<>>]
True == [t |-> "boolean", s |-> <<"t">>]
False == [t |-> "boolean", s |-> <<"f">>]

\* typeof v === 'string'
IsString(v) == v.t = "string"

\* !v : undefined, null, "", 0 and false are falsy
Falsy(v) ==
  \/ v.t \in {"undefined", "null"}
  \/ v.t = "string" /\ v.s = <<>>
  \/ v.t = "number" /\ v.s = <<"0">>
  \/ v = False

\* variant: the truth value of v, not negated
Not_truthy(v) == IF Falsy(v) THEN False ELSE True

\* !v as a boolean value
Not(v) == IF Falsy(v) THEN True ELSE False

Whitespace == {" ", "\t", "\n"}
Digits == <<"0", "1", "2", "3", "4", "5", "6", "7", "8", "9">>
IsDigit(c) == \E i \in 1..10 : Digits[i] = c
DigitVal(c) == (CHOOSE i \in 1..10 : Digits[i] = c) - 1

\* the positions of s that hold no whitespace
Inked(s) == {i \in 1..Len(s) : s[i] \notin Whitespace}
First(S) == CHOOSE i \in S : \A j \in S : i <= j
Final(S) == CHOOSE i \in S : \A j \in S : i >= j

\* String.prototype.trimStart
TrimStart(s) == IF Inked(s) = {} THEN <<>> ELSE SubSeq(s, First(Inked(s)), Len(s))

\* String.prototype.trim
Trim(s) == IF Inked(s) = {} THEN <<>> ELSE SubSeq(s, First(Inked(s)), Final(Inked(s)))

\* the text of a character sequence, as one segment of a message
RECURSIVE Text(_)
Text(s) == IF s = <<>> THEN "" ELSE Head(s) \o Text(Tail(s))

\* Number.prototype.toString for integers; NaN prints as "NaN"
NaN == [nan |-> TRUE, n |-> 0]
Number(n) == [nan |-> FALSE, n |-> n]

RECURSIVE NatToString(_)
NatToString(n) ==
  IF n < 10 THEN <<Digits[n + 1]>>
  ELSE NatToString(n \div 10) \o <<Digits[(n % 10) + 1]>>

toString(x) ==
  IF x.nan THEN <<"N", "a", "N">>
  ELSE IF x.n < 0 THEN <<"-">> \o NatToString(0 - x.n)
  ELSE NatToString(x.n)

\* the longest prefix of digits of s
RECURSIVE DigitRun(_)
DigitRun(s) ==
  IF s # <<>> /\ IsDigit(Head(s)) THEN <<Head(s)>> \o DigitRun(Tail(s)) ELSE <<>>

RECURSIVE DigitsValue(_)
DigitsValue(s) ==
  IF s = <<>> THEN 0 ELSE DigitsValue(SubSeq(s, 1, Len(s) - 1)) * 10 + DigitVal(s[Len(s)])

\* parseInt(s, 10): leading whitespace, an optional sign, then digits
parseInt(s) ==
  LET t == TrimStart(s)
      signed == t # <<>> /\ Head(t) \in {"+", "-"}
      run == DigitRun(IF signed THEN Tail(t) ELSE t)
  IN  IF run = <<>> THEN NaN
      ELSE IF signed /\ Head(t) = "-" THEN Number(0 - DigitsValue(run))
      ELSE Number(DigitsValue(run))

\* Math.max(0, ...xs): NaN when any argument is NaN
RECURSIVE MathMax0(_)
MathMax0(xs) ==
  IF xs = <<>> THEN Number(0)
  ELSE LET r == MathMax0(Tail(xs))
           h == Head(xs)
       IN  IF h.nan \/ r.nan THEN NaN
           ELSE IF h.n > r.n THEN h ELSE r

\* String.includes on a message: the needle's segments occur contiguously
Includes(msg, needle) ==
  \E i \in 0..(Len(msg) - Len(needle)) : SubSeq(msg, i + 1, i + Len(needle)) = needle

UpperCase == <<"A", "B", "C", "D", "E", "F", "G", "H", "I", "J", "K", "L", "M",
               "N", "O", "P", "Q", "R", "S", "T", "U", "V", "W", "X", "Y", "Z">>
LowerCase == <<"a", "b", "c", "d", "e", "f", "g", "h", "i", "j", "k", "l", "m",
               "n", "o", "p", "q", "r", "s", "t", "u", "v", "w", "x", "y", "z">>

\* String.prototype.toLowerCase
toLowerCase(s) ==
  [i \in DOMAIN s |->
     IF \E k \in DOMAIN UpperCase : UpperCase[k] = s[i]
       THEN LowerCase[CHOOSE k \in DOMAIN UpperCase : UpperCase[k] = s[i]]
       ELSE s[i]]

\* the characters of the model in the order of their UTF-16 code units
CodeUnits ==
  <<" ", "-", ".", "0", "1", "2", "3", "4", "5", "6", "7", "8", "9", "@">>
  \o UpperCase \o LowerCase

charCodeAt(c) == CHOOSE k \in DOMAIN CodeUnits : CodeUnits[k] = c

\* a < b on strings: the first code unit that differs decides, and a proper
\* prefix is smaller
StringLess(a, b) ==
  \E k \in 1..Len(b) :
    /\ \A j \in 1..(k - 1) : j <= Len(a) /\ a[j] = b[j]
    /\ \/ k = Len(a) + 1
       \/ k <= Len(a) /\ charCodeAt(a[k]) < charCodeAt(b[k])

(***************************************************************************)
(* Validators (lib/validators)                                             *)
(***************************************************************************)
Valid == [isValid |-> TRUE, error |-> <<>>]
Invalid(msg) == [isValid |-> FALSE, error |-> msg]

\* /^\d{3}-\d{4}$/
phoneRegex(s) ==
  /\ Len(s) = 8
  /\ \A i \in {1, 2, 3, 5, 6, 7, 8} : IsDigit(s[i])
  /\ s[4] = "-"

\* /^[^\s@]+@[^\s@]+\.[^\s@]+$/
emailRegex(s) ==
  \E i \in 2..Len(s) : \E j \in (i + 2)..(Len(s) - 1) :
    /\ s[i] = "@"
    /\ s[j] = "."
    /\ \A k \in (1..Len(s)) \ {i} : s[k] \notin Whitespace \cup {"@"}

\* /^\d{4}-\d{2}-\d{2}$/
dateRegex(s) ==
  /\ Len(s) = 10
  /\ \A i \in {1, 2, 3, 4, 6, 7, 9, 10} : IsDigit(s[i])
  /\ s[5] = "-" /\ s[8] = "-"

ContactValidator_validatePhone(phone) ==
  IF ~IsString(phone) THEN Invalid(<<"Phone must be a string">>)
  ELSE IF Len(phone.s) # 8
    THEN Invalid(<<"Phone must be exactly 8 characters long. You provided ",
                   Text(NatToString(Len(phone.s))), " characters.">>)
  ELSE IF ~phoneRegex(phone.s)
    THEN Invalid(<<"Phone must be in format", ":", " ", "555-0001">>)
  ELSE Valid

ContactValidator_validateEmail(email) ==
  IF ~IsString(email) THEN Invalid(<<"Email must be a string">>)
  ELSE IF Len(email.s) = 0 \/ Len(email.s) > 100
    THEN Invalid(<<"Email must be between 1-100 characters">>)
  ELSE IF ~emailRegex(email.s) THEN Invalid(<<"Invalid email format">>)
  ELSE Valid

ContactValidator_validateName(name) ==
  IF ~IsString(name) THEN Invalid(<<"Name must be a string">>)
  ELSE LET trimmed == Trim(name.s)
       IN  IF Len(trimmed) < 2 \/ Len(trimmed) > 100
             THEN Invalid(<<"Name must be between 2-100 characters. You provided ",
                            Text(NatToString(Len(trimmed)))>>)
             ELSE Valid

ContactValidator_validateAddress(address) ==
  IF ~IsString(address) THEN Invalid(<<"Address must be a string">>)
  ELSE LET trimmed == Trim(address.s)
       IN  IF Len(trimmed) < 5 \/ Len(trimmed) > 200
             THEN Invalid(<<"Address must be between 5-200 characters. You provided ",
                            Text(NatToString(Len(trimmed)))>>)
             ELSE Valid

\* errors.push({ field, message }) when the field's check fails
FieldError(field, validation) ==
  IF validation.isValid THEN <<>>
  ELSE <<[field |-> field, message |-> validation.error]>>

ValidationResult(errors) == [isValid |-> Len(errors) = 0, errors |-> errors]

\* variant: validation stops at the first field that fails
ContactValidator_validateCreateInput_firstOnly(input) ==
  LET name == FieldError("name", ContactValidator_validateName(input.name))
      email == FieldError("email", ContactValidator_validateEmail(input.email))
      phone == FieldError("phone", ContactValidator_validatePhone(input.phone))
      address == FieldError("address", ContactValidator_validateAddress(input.address))
  IN  ValidationResult(IF name # <<>> THEN name
                       ELSE IF email # <<>> THEN email
                       ELSE IF phone # <<>> THEN phone
                       ELSE address)

ContactValidator_validateCreateInput(input) ==
  ValidationResult(
    FieldError("name", ContactValidator_validateName(input.name))
    \o FieldError("email", ContactValidator_validateEmail(input.email))
    \o FieldError("phone", ContactValidator_validatePhone(input.phone))
    \o FieldError("address", ContactValidator_validateAddress(input.address)))

\* variant: a field is checked whether or not it is present
PresentFieldError_always(field, value, validation) == FieldError(field, validation)

\* a field is checked only when it is !== undefined
PresentFieldError(field, value, validation) ==
  IF value = Undefined THEN <<>> ELSE FieldError(field, validation)

ContactValidator_validateUpdateInput(input) ==
  ValidationResult(
    PresentFieldError("name", input.name, ContactValidator_validateName(input.name))
    \o PresentFieldError("email", input.email, ContactValidator_validateEmail(input.email))
    \o PresentFieldError("phone", input.phone, ContactValidator_validatePhone(input.phone))
    \o PresentFieldError("address", input.address,
                         ContactValidator_validateAddress(input.address)))

(***************************************************************************)
(* Calendar arithmetic behind new Date(...) in validateDueDate             *)
(***************************************************************************)
\* the local calendar date returned by new Date()
Today == [year |-> 2025, month |-> 6, day |-> 1]

IsLeap(y) == (y % 4 = 0 /\ y % 100 # 0) \/ y % 400 = 0

DaysInMonth(y, m) ==
  IF m = 2 THEN (IF IsLeap(y) THEN 29 ELSE 28)
  ELSE IF m \in {4, 6, 9, 11} THEN 30 ELSE 31

RECURSIVE DaysBeforeMonth(_, _)
DaysBeforeMonth(y, m) ==
  IF m <= 1 THEN 0 ELSE DaysBeforeMonth(y, m - 1) + DaysInMonth(y, m - 1)

\* days from 0000-01-01 to the first day of year y
DaysBeforeYear(y) ==
  IF y = 0 THEN 0
  ELSE 365 * y + ((y - 1) \div 4) - ((y - 1) \div 100) + ((y - 1) \div 400) + 1

\* new Date(year, month - 1, day): years 0..99 mean 1900..1999 and a day
\* past the end of the month rolls over into the next month
LocalDayNumber(year, month, day) ==
  LET y == IF year <= 99 THEN 1900 + year ELSE year
  IN  DaysBeforeYear(y) + DaysBeforeMonth(y, month) + day

\* new Date('YYYY-MM-DD') is a valid date: the engine (V8) accepts months
\* 1..12 and days 1..31
IsValidDateString(year, month, day) == month \in 1..12 /\ day \in 1..31

(***************************************************************************)
(* Task validator                                                          *)
(***************************************************************************)
TaskValidator_validateTitle(title) ==
  IF ~IsString(title) THEN Invalid(<<"Title must be a string">>)
  ELSE LET trimmed == Trim(title.s)
       IN  IF Len(trimmed) < 2 \/ Len(trimmed) > 200
             THEN Invalid(<<"Title must be between 2-200 characters. You provided ",
                            Text(NatToString(Len(trimmed)))>>)
             ELSE Valid

TaskValidator_validateDescription(description) ==
  IF Falsy(description) THEN Valid
  ELSE IF ~IsString(description) THEN Invalid(<<"Description must be a string">>)
  ELSE LET trimmed == Trim(description.s)
       IN  IF Len(trimmed) > 500
             THEN Invalid(<<"Description must be 0-500 characters. You provided ",
                            Text(NatToString(Len(trimmed)))>>)
             ELSE Valid

TaskValidator_validateDueDate(dueDate) ==
  IF Falsy(dueDate) THEN Valid
  ELSE IF ~IsString(dueDate) THEN Invalid(<<"Due date must be a string">>)
  ELSE IF ~dateRegex(dueDate.s)
    THEN Invalid(<<"Due date must be in ISO format", ":", " ", "YYYY-MM-DD">>)
  ELSE LET year == DigitsValue(SubSeq(dueDate.s, 1, 4))
           month == DigitsValue(SubSeq(dueDate.s, 6, 7))
           day == DigitsValue(SubSeq(dueDate.s, 9, 10))
       IN  IF ~IsValidDateString(year, month, day)
             THEN Invalid(<<"Due date is not a valid date">>)
           ELSE IF LocalDayNumber(year, month, day)
                     < LocalDayNumber(Today.year, Today.month, Today.day)
             THEN Invalid(<<"Due date cannot be less than current date">>)
           ELSE Valid

TaskValidator_validateContactId(contactId) ==
  IF ~IsString(contactId) THEN Invalid(<<"Contact ID must be a string">>)
  ELSE IF Trim(contactId.s) = <<>> THEN Invalid(<<"Contact ID is required">>)
  ELSE Valid

TaskValidator_validateCreateInput(input) ==
  ValidationResult(
    FieldError("contactId", TaskValidator_validateContactId(input.contactId))
    \o FieldError("title", TaskValidator_validateTitle(input.title))
    \o FieldError("description", TaskValidator_validateDescription(input.description))
    \o FieldError("dueDate", TaskValidator_validateDueDate(input.dueDate)))

TaskValidator_validateUpdateInput(input) ==
  ValidationResult(
    PresentFieldError("title", input.title, TaskValidator_validateTitle(input.title))
    \o PresentFieldError("description", input.description,
                         TaskValidator_validateDescription(input.description))
    \o PresentFieldError("dueDate", input.dueDate,
                         TaskValidator_validateDueDate(input.dueDate)))

\* `Validation failed: ${errors.map(e => `${e.field}: ${e.message}`).join('; ')}`
RECURSIVE JoinErrors(_)
JoinErrors(errors) ==
  IF errors = <<>> THEN <<>>
  ELSE <<Head(errors).field, ":", " ">> \o Head(errors).message
       \o (IF Len(errors) > 1 THEN <<";", " ">> ELSE <<>>)
       \o JoinErrors(Tail(errors))

ValidationFailed(errors) == <<"Validation failed", ":", " ">> \o JoinErrors(errors)

\* String.indexOf on a message, counted from 1: 0 when the needle does not occur
IndexOf(msg, needle) ==
  LET at == {i \in 1..(Len(msg) - Len(needle) + 1) :
               SubSeq(msg, i, i + Len(needle) - 1) = needle}
  IN  IF at = {} THEN 0 ELSE First(at)

\* String.replace with a string pattern: the first occurrence only
Replace(msg, pattern, by) ==
  LET i == IndexOf(msg, pattern)
  IN  IF i = 0 THEN msg
      ELSE SubSeq(msg, 1, i - 1) \o by \o SubSeq(msg, i + Len(pattern), Len(msg))

\* String.split with a string separator
RECURSIVE Split(_, _)
Split(msg, separator) ==
  LET i == IndexOf(msg, separator)
  IN  IF i = 0 THEN <<msg>>
      ELSE <<SubSeq(msg, 1, i - 1)>>
           \o Split(SubSeq(msg, i + Len(separator), Len(msg)), separator)

\* errors[field] = message: the entry of the field is replaced
SetEntry(errors, field, message) ==
  {e \in errors : e.field # field} \cup {[field |-> field, message |-> message]}

\* the body of the forEach over the 'field: message' parts, on the first
\* colon of each
RECURSIVE ParseFieldErrors(_, _)
ParseFieldErrors(fieldErrors, errors) ==
  IF fieldErrors = <<>> THEN errors
  ELSE LET fieldError == Head(fieldErrors)
           colonIndex == IndexOf(fieldError, <<":">>)
           field == Trim(SubSeq(fieldError, 1, colonIndex - 1))
           message == Trim(SubSeq(fieldError, colonIndex + 1, Len(fieldError)))
       IN  ParseFieldErrors(Tail(fieldErrors),
             IF colonIndex > 1 /\ field # <<>> /\ message # <<>>
               THEN SetEntry(errors, field, message)
               ELSE errors)

\* the same with the last colon of each part
RECURSIVE ParseFieldErrors_lastColon(_, _)
ParseFieldErrors_lastColon(fieldErrors, errors) ==
  IF fieldErrors = <<>> THEN errors
  ELSE LET fieldError == Head(fieldErrors)
           colons == {i \in 1..Len(fieldError) : fieldError[i] = ":"}
           colonIndex == IF colons = {} THEN 0 ELSE Final(colons)
           field == Trim(SubSeq(fieldError, 1, colonIndex - 1))
           message == Trim(SubSeq(fieldError, colonIndex + 1, Len(fieldError)))
       IN  ParseFieldErrors_lastColon(Tail(fieldErrors),
             IF colonIndex > 1 /\ field # <<>> /\ message # <<>>
               THEN SetEntry(errors, field, message)
               ELSE errors)

\* parseValidationErrors with the mutated forEach body
parseValidationErrors_lastColon(errorMessage) ==
  IF errorMessage = <<>> \/ ~Includes(errorMessage, <<"Validation failed", ":">>) THEN {}
  ELSE LET errorPart == Trim(Replace(errorMessage, <<"Validation failed", ":", " ">>, <<>>))
       IN  IF errorPart = <<>> THEN {}
           ELSE ParseFieldErrors_lastColon(Split(errorPart, <<";", " ">>), {})

\* parseValidationErrors: the map field -> message, as its set of entries; a
\* field name is the sequence of the segments before the colon
parseValidationErrors(errorMessage) ==
  IF errorMessage = <<>> \/ ~Includes(errorMessage, <<"Validation failed", ":">>) THEN {}
  ELSE LET errorPart == Trim(Replace(errorMessage, <<"Validation failed", ":", " ">>, <<>>))
       IN  IF errorPart = <<>> THEN {}
           ELSE ParseFieldErrors(Split(errorPart, <<";", " ">>), {})

(***************************************************************************)
(* Record stores (lib/db).  A store module is a record                     *)
(*   [db, isInitialized, file]                                             *)
(* of its in-memory array, its flag and the content of its JSON file; the  *)
(* file is [ok, rows], ok = FALSE when reading or parsing it throws.  An   *)
(* operation returns [m, ret, err]: the module afterwards, the returned    *)
(* value and the message of the Error thrown (NoError when none).  A       *)
(* returned entity-or-null is a sequence of at most one entity.  wok tells *)
(* whether fs.writeFileSync succeeds.  JSON.stringify followed by          *)
(* JSON.parse rebuilds the same array of entities: every field is a string,*)
(* a boolean, null, or undefined (dropped from the text and read back as   *)
(* undefined).                                                             *)
(***************************************************************************)
NoError == <<>>
Result(m, ret, err) == [m |-> m, ret |-> ret, err |-> err]

\* { contacts: contactsDb } / { tasks: tasksDb } written and parsed back
Document(rows) == [ok |-> TRUE, rows |-> rows]
\* a file that is missing or is not JSON
Unreadable == [ok |-> FALSE, rows |-> <<>>]

\* the position of the first entity with this id, 0 when there is none
findIndex(db, id) ==
  IF \E i \in DOMAIN db : db[i].id = id
    THEN CHOOSE i \in DOMAIN db : db[i].id = id /\ \A j \in 1..(i - 1) : db[j].id # id
    ELSE 0

\* array.find(...) || null
find(db, index) == IF index = 0 THEN <<>> ELSE <<db[index]>>

\* array.splice(index, 1)
splice(db, index) == SubSeq(db, 1, index - 1) \o SubSeq(db, index + 1, Len(db))

\* variant: the next id counted from the length of the collection
newId_byLength(db) == toString(Number(Len(db) + 1))

\* (Math.max(0, ...db.map(e => parseInt(e.id, 10))) + 1).toString()
newId(db) ==
  LET maxId == MathMax0([i \in DOMAIN db |-> parseInt(db[i].id)])
  IN  toString(IF maxId.nan THEN NaN ELSE Number(maxId.n + 1))

\* initializeDatabase whose catch block leaves isInitialized alone
initializeDatabase_unset(m) ==
  IF m.isInitialized THEN m
  ELSE IF m.file.ok THEN [m EXCEPT !.db = m.file.rows, !.isInitialized = TRUE]
  ELSE [m EXCEPT !.db = <<>>]

initializeDatabase(m) ==
  IF m.isInitialized THEN m
  ELSE IF m.file.ok THEN [m EXCEPT !.db = m.file.rows, !.isInitialized = TRUE]
  ELSE [m EXCEPT !.db = <<>>, !.isInitialized = TRUE]

\* reloadDatabase that reads the file on the first use only
reloadDatabase_once(m) == initializeDatabase(m)

reloadDatabase(m) ==
  IF ~m.isInitialized THEN initializeDatabase(m)
  ELSE IF m.file.ok THEN [m EXCEPT !.db = m.file.rows]
  ELSE m

\* variant: the collection is appended to the rows of the file
saveToFile_appending(m, ret, wok, failure) ==
  IF wok THEN Result([m EXCEPT !.file = Document(m.file.rows \o m.db)], ret, NoError)
  ELSE Result(m, <<>>, failure)

saveToFile(m, ret, wok, failure) ==
  IF wok THEN Result([m EXCEPT !.file = Document(m.db)], ret, NoError)
  ELSE Result(m, <<>>, failure)

\* resetDatabase of either store: the array is emptied and saved; the flag
\* isInitialized is not touched
resetDatabase(m, wok, failure) == saveToFile([m EXCEPT !.db = <<>>], <<>>, wok, failure)

NotFound(kind, id) == <<kind, " with ID ", Text(id), " ", "not found">>

\* if (updates.f !== undefined) entity.f = updates.f
assign(old, new) == IF new # Undefined THEN new ELSE old

(***************************************************************************)
(* Contacts store                                                          *)
(***************************************************************************)
ContactSaveFailed == <<"Contact database save failed">>

cdb_getAllContacts(m) ==
  LET m1 == reloadDatabase(m) IN Result(m1, m1.db, NoError)

cdb_getContactById(m, id) ==
  LET m1 == reloadDatabase(m)
  IN  Result(m1, find(m1.db, findIndex(m1.db, id)), NoError)

\* getContactByPhone that finds no contact
cdb_getContactByPhone_none(m, phone) == Result(reloadDatabase(m), <<>>, NoError)

cdb_getContactByPhone(m, phone) ==
  LET m1 == reloadDatabase(m)
      hit == {i \in DOMAIN m1.db : m1.db[i].phone = phone}
  IN  Result(m1,
             IF hit = {} THEN <<>>
             ELSE <<m1.db[CHOOSE i \in hit : \A j \in hit : i <= j]>>,
             NoError)

cdb_getContactCount(m) ==
  LET m1 == reloadDatabase(m) IN Result(m1, Len(m1.db), NoError)

\* createContact that numbers the new contact by the length of the array
cdb_createContact_byLength(m, input, time, wok) ==
  LET m1 == initializeDatabase(m)
      newContact == [id |-> newId_byLength(m1.db),
                     name |-> input.name,
                     email |-> input.email,
                     phone |-> input.phone,
                     address |-> input.address,
                     createdAt |-> time]
      m2 == [m1 EXCEPT !.db = Append(m1.db, newContact)]
  IN  saveToFile(m2, <<newContact>>, wok, ContactSaveFailed)

cdb_createContact(m, input, time, wok) ==
  LET m1 == initializeDatabase(m)
      newContact == [id |-> newId(m1.db),
                     name |-> input.name,
                     email |-> input.email,
                     phone |-> input.phone,
                     address |-> input.address,
                     createdAt |-> time]
      m2 == [m1 EXCEPT !.db = Append(m1.db, newContact)]
  IN  saveToFile(m2, <<newContact>>, wok, ContactSaveFailed)

\* updateContact that puts the old contact back when the write fails
cdb_updateContact_rollingBack(m, id, updates, wok) ==
  LET m1 == initializeDatabase(m)
      contactIndex == findIndex(m1.db, id)
  IN  IF contactIndex = 0 THEN Result(m1, <<>>, NotFound("Contact", id))
      ELSE LET old == m1.db[contactIndex]
               contact == [old EXCEPT !.name = assign(old.name, updates.name),
                                      !.email = assign(old.email, updates.email),
                                      !.phone = assign(old.phone, updates.phone),
                                      !.address = assign(old.address, updates.address)]
               m2 == [m1 EXCEPT !.db[contactIndex] = contact]
           IN  IF wok THEN saveToFile(m2, <<contact>>, wok, ContactSaveFailed)
               ELSE Result(m1, <<>>, ContactSaveFailed)

cdb_updateContact(m, id, updates, wok) ==
  LET m1 == initializeDatabase(m)
      contactIndex == findIndex(m1.db, id)
  IN  IF contactIndex = 0 THEN Result(m1, <<>>, NotFound("Contact", id))
      ELSE LET old == m1.db[contactIndex]
               contact == [old EXCEPT !.name = assign(old.name, updates.name),
                                      !.email = assign(old.email, updates.email),
                                      !.phone = assign(old.phone, updates.phone),
                                      !.address = assign(old.address, updates.address)]
               m2 == [m1 EXCEPT !.db[contactIndex] = contact]
           IN  saveToFile(m2, <<contact>>, wok, ContactSaveFailed)

\* deleteContact that writes the file whether or not a contact was removed
cdb_deleteContact_saving(m, id, wok) ==
  LET m1 == initializeDatabase(m)
      contactIndex == findIndex(m1.db, id)
  IN  IF contactIndex = 0 THEN saveToFile(m1, FALSE, wok, ContactSaveFailed)
      ELSE saveToFile([m1 EXCEPT !.db = splice(m1.db, contactIndex)], TRUE, wok,
                      ContactSaveFailed)

cdb_deleteContact(m, id, wok) ==
  LET m1 == initializeDatabase(m)
      contactIndex == findIndex(m1.db, id)
  IN  IF contactIndex = 0 THEN Result(m1, FALSE, NoError)
      ELSE saveToFile([m1 EXCEPT !.db = splice(m1.db, contactIndex)], TRUE, wok,
                      ContactSaveFailed)

\* c.name.toLowerCase() and c.email.toLowerCase() throw a TypeError when
\* the value is not a string
TypeError == <<"TypeError">>

cdb_searchContacts(m, query) ==
  LET m1 == reloadDatabase(m)
      lowerQuery == toLowerCase(query)
      inName(c) == Includes(toLowerCase(c.name.s), lowerQuery)
      inEmail(c) == Includes(toLowerCase(c.email.s), lowerQuery)
      throws(c) == ~IsString(c.name) \/ (~inName(c) /\ ~IsString(c.email))
  IN  IF \E k \in DOMAIN m1.db : throws(m1.db[k]) THEN Result(m1, <<>>, TypeError)
      ELSE Result(m1, SelectSeq(m1.db, LAMBDA c : inName(c) \/ inEmail(c)), NoError)

(***************************************************************************)
(* Tasks store                                                             *)
(***************************************************************************)
TaskSaveFailed == <<"Task database save failed">>

tdb_getAllTasks(m) ==
  LET m1 == initializeDatabase(m) IN Result(m1, m1.db, NoError)

tdb_getTaskCount(m) ==
  LET m1 == initializeDatabase(m) IN Result(m1, Len(m1.db), NoError)

tdb_getTaskById(m, id) ==
  LET m1 == initializeDatabase(m)
  IN  Result(m1, find(m1.db, findIndex(m1.db, id)), NoError)

tdb_getTasksByContactId(m, contactId) ==
  LET m1 == reloadDatabase(m)
  IN  Result(m1, SelectSeq(m1.db, LAMBDA t : t.contactId = contactId), NoError)

\* createTask that takes completed from the input
tdb_createTask_asGiven(m, input, time, wok) ==
  LET m1 == reloadDatabase(m)
      newTask == [id |-> newId(m1.db),
                  contactId |-> input.contactId,
                  title |-> input.title,
                  description |-> input.description,
                  completed |-> input.completed,
                  dueDate |-> input.dueDate,
                  createdAt |-> time,
                  updatedAt |-> time]
      m2 == [m1 EXCEPT !.db = Append(m1.db, newTask)]
  IN  saveToFile(m2, <<newTask>>, wok, TaskSaveFailed)

tdb_createTask(m, input, time, wok) ==
  LET m1 == reloadDatabase(m)
      newTask == [id |-> newId(m1.db),
                  contactId |-> input.contactId,
                  title |-> input.title,
                  description |-> input.description,
                  completed |-> False,
                  dueDate |-> input.dueDate,
                  createdAt |-> time,
                  updatedAt |-> time]
      m2 == [m1 EXCEPT !.db = Append(m1.db, newTask)]
  IN  saveToFile(m2, <<newTask>>, wok, TaskSaveFailed)

\* variant: every field of the partial input is written, defined or not
tdb_updateTask_overwriting(m, id, updates, time, wok) ==
  LET m1 == reloadDatabase(m)
      taskIndex == findIndex(m1.db, id)
  IN  IF taskIndex = 0 THEN Result(m1, <<>>, NotFound("Task", id))
      ELSE LET old == m1.db[taskIndex]
               task == [old EXCEPT !.title = updates.title,
                                   !.description = updates.description,
                                   !.completed = updates.completed,
                                   !.dueDate = updates.dueDate,
                                   !.updatedAt = time]
               m2 == [m1 EXCEPT !.db[taskIndex] = task]
           IN  saveToFile(m2, <<task>>, wok, TaskSaveFailed)

tdb_updateTask(m, id, updates, time, wok) ==
  LET m1 == reloadDatabase(m)
      taskIndex == findIndex(m1.db, id)
  IN  IF taskIndex = 0 THEN Result(m1, <<>>, NotFound("Task", id))
      ELSE LET old == m1.db[taskIndex]
               task == [old EXCEPT !.title = assign(old.title, updates.title),
                                   !.description = assign(old.description, updates.description),
                                   !.completed = assign(old.completed, updates.completed),
                                   !.dueDate = assign(old.dueDate, updates.dueDate),
                                   !.updatedAt = time]
               m2 == [m1 EXCEPT !.db[taskIndex] = task]
           IN  saveToFile(m2, <<task>>, wok, TaskSaveFailed)

\* variant: the toggle keeps the old updatedAt
tdb_toggleTask_stale(m, id, time, wok) ==
  LET m1 == reloadDatabase(m)
      taskIndex == findIndex(m1.db, id)
  IN  IF taskIndex = 0 THEN Result(m1, <<>>, NotFound("Task", id))
      ELSE LET old == m1.db[taskIndex]
               task == [old EXCEPT !.completed = Not(old.completed)]
               m2 == [m1 EXCEPT !.db[taskIndex] = task]
           IN  saveToFile(m2, <<task>>, wok, TaskSaveFailed)

tdb_toggleTask(m, id, time, wok) ==
  LET m1 == reloadDatabase(m)
      taskIndex == findIndex(m1.db, id)
  IN  IF taskIndex = 0 THEN Result(m1, <<>>, NotFound("Task", id))
      ELSE LET old == m1.db[taskIndex]
               task == [old EXCEPT !.completed = Not(old.completed), !.updatedAt = time]
               m2 == [m1 EXCEPT !.db[taskIndex] = task]
           IN  saveToFile(m2, <<task>>, wok, TaskSaveFailed)

tdb_deleteTask(m, id, wok) ==
  LET m1 == reloadDatabase(m)
      taskIndex == findIndex(m1.db, id)
  IN  IF taskIndex = 0 THEN Result(m1, FALSE, NoError)
      ELSE saveToFile([m1 EXCEPT !.db = splice(m1.db, taskIndex)], TRUE, wok, TaskSaveFailed)

\* variant: the file is written whether or not a task was removed
tdb_deleteTasksByContactId_saving(m, contactId, wok) ==
  LET m1 == reloadDatabase(m)
      beforeCount == Len(m1.db)
      m2 == [m1 EXCEPT !.db = SelectSeq(m1.db, LAMBDA t : t.contactId # contactId)]
  IN  saveToFile(m2, beforeCount - Len(m2.db), wok, TaskSaveFailed)

tdb_deleteTasksByContactId(m, contactId, wok) ==
  LET m1 == reloadDatabase(m)
      beforeCount == Len(m1.db)
      m2 == [m1 EXCEPT !.db = SelectSeq(m1.db, LAMBDA t : t.contactId # contactId)]
      deletedCount == beforeCount - Len(m2.db)
  IN  IF deletedCount > 0 THEN saveToFile(m2, deletedCount, wok, TaskSaveFailed)
      ELSE Result(m2, deletedCount, NoError)

(***************************************************************************)
(* Contact service (services/contactService)                               *)
(***************************************************************************)
PhoneExists ==
  <<"Validation failed", ":", " ", "phone", ":", " ", "Phone number already exists">>

\* variant: no lookup of the phone before the contact is stored
csvc_createContact_unchecked(m, input, time, wok) ==
  LET validation == ContactValidator_validateCreateInput(input)
  IN  IF ~validation.isValid THEN Result(m, <<>>, ValidationFailed(validation.errors))
      ELSE cdb_createContact(m, input, time, wok)

csvc_createContact(m, input, time, wok) ==
  LET validation == ContactValidator_validateCreateInput(input)
      existingContact == cdb_getContactByPhone(m, input.phone)
  IN  IF ~validation.isValid THEN Result(m, <<>>, ValidationFailed(validation.errors))
      ELSE IF existingContact.ret # <<>> THEN Result(existingContact.m, <<>>, PhoneExists)
      ELSE cdb_createContact(existingContact.m, input, time, wok)

\* variant: no lookup of the phone before the contact is updated
csvc_updateContact_unchecked(m, id, updates, wok) ==
  LET existingContact == cdb_getContactById(m, id)
      validation == ContactValidator_validateUpdateInput(updates)
  IN  IF existingContact.ret = <<>>
        THEN Result(existingContact.m, <<>>, NotFound("Contact", id))
      ELSE IF ~validation.isValid
        THEN Result(existingContact.m, <<>>, ValidationFailed(validation.errors))
      ELSE cdb_updateContact(existingContact.m, id, updates, wok)

csvc_updateContact(m, id, updates, wok) ==
  LET contactWithPhone == cdb_getContactByPhone(m, updates.phone)
      m1 == IF updates.phone # Undefined THEN contactWithPhone.m ELSE m
      existingContact == cdb_getContactById(m1, id)
      validation == ContactValidator_validateUpdateInput(updates)
  IN  IF /\ updates.phone # Undefined
         /\ contactWithPhone.ret # <<>>
         /\ contactWithPhone.ret[1].id # id
        THEN Result(m1, <<>>, PhoneExists)
      ELSE IF existingContact.ret = <<>>
        THEN Result(existingContact.m, <<>>, NotFound("Contact", id))
      ELSE IF ~validation.isValid
        THEN Result(existingContact.m, <<>>, ValidationFailed(validation.errors))
      ELSE cdb_updateContact(existingContact.m, id, updates, wok)

csvc_deleteContact(m, id, wok) ==
  LET contact == cdb_getContactById(m, id)
  IN  IF contact.ret = <<>> THEN Result(contact.m, <<>>, NotFound("Contact", id))
      ELSE cdb_deleteContact(contact.m, id, wok)

\* variant: the query goes to the store as it was given
csvc_searchContacts_untrimmed(m, query) ==
  LET found == IF Falsy(query) \/ Trim(query.s) = <<>> THEN cdb_getAllContacts(m)
               ELSE cdb_searchContacts(m, query.s)
  IN  IF found.err # NoError THEN Result(found.m, <<>>, <<"Failed to search contacts">>)
      ELSE found

csvc_searchContacts(m, query) ==
  LET found == IF Falsy(query) \/ Trim(query.s) = <<>> THEN cdb_getAllContacts(m)
               ELSE cdb_searchContacts(m, Trim(query.s))
  IN  IF found.err # NoError THEN Result(found.m, <<>>, <<"Failed to search contacts">>)
      ELSE found

\* compareA < compareB for the chosen key
KeyLess(a, b, sortBy) ==
  IF sortBy = "name" THEN StringLess(toLowerCase(a.name.s), toLowerCase(b.name.s))
  ELSE IF sortBy = "email" THEN StringLess(toLowerCase(a.email.s), toLowerCase(b.email.s))
  ELSE a.createdAt < b.createdAt

\* the comparator given to Array.prototype.sort
compare(a, b, sortBy, direction) ==
  IF KeyLess(a, b, sortBy) THEN (IF direction = "asc" THEN -1 ELSE 1)
  ELSE IF KeyLess(b, a, sortBy) THEN (IF direction = "asc" THEN 1 ELSE -1)
  ELSE 0

\* Array.prototype.sort is stable: an element goes behind the elements before
\* it that the comparator does not put after it
RECURSIVE sort(_, _, _)
sort(array, sortBy, direction) ==
  IF array = <<>> THEN <<>>
  ELSE LET x == array[Len(array)]
           front == sort(SubSeq(array, 1, Len(array) - 1), sortBy, direction)
           n == Cardinality({k \in DOMAIN front : compare(front[k], x, sortBy, direction) <= 0})
       IN  SubSeq(front, 1, n) \o <<x>> \o SubSeq(front, n + 1, Len(front))

\* variant: the array given is sorted in place and returned
sortContacts_inPlace(contacts, sortBy, direction) ==
  LET throws == /\ Len(contacts) > 1
                /\ \/ sortBy = "name" /\ \E k \in DOMAIN contacts : ~IsString(contacts[k].name)
                   \/ sortBy = "email" /\ \E k \in DOMAIN contacts : ~IsString(contacts[k].email)
  IN  IF throws
        THEN [err |-> <<"Failed to sort contacts">>, contacts |-> contacts, sorted |-> <<>>]
        ELSE [err |-> NoError, contacts |-> sort(contacts, sortBy, direction),
              sorted |-> sort(contacts, sortBy, direction)]

\* the error thrown, the array given as it is after the call and the array
\* returned: toLowerCase throws on a name or email that is not a string
sortContacts(contacts, sortBy, direction) ==
  LET throws == /\ Len(contacts) > 1
                /\ \/ sortBy = "name" /\ \E k \in DOMAIN contacts : ~IsString(contacts[k].name)
                   \/ sortBy = "email" /\ \E k \in DOMAIN contacts : ~IsString(contacts[k].email)
  IN  IF throws
        THEN [err |-> <<"Failed to sort contacts">>, contacts |-> contacts, sorted |-> <<>>]
        ELSE [err |-> NoError, contacts |-> contacts,
              sorted |-> sort(contacts, sortBy, direction)]

(***************************************************************************)
(* Task service (services/taskService)                                     *)
(***************************************************************************)
tsvc_getTaskById(m, id) ==
  IF id = <<>> \/ Trim(id) = <<>> THEN Result(m, <<>>, <<"Failed to fetch task">>)
  ELSE tdb_getTaskById(m, id)

\* variant: the input goes to the store without validation
tsvc_createTask_unvalidated(m, input, time, wok) == tdb_createTask(m, input, time, wok)

tsvc_createTask(m, input, time, wok) ==
  LET validation == TaskValidator_validateCreateInput(input)
  IN  IF ~validation.isValid THEN Result(m, <<>>, ValidationFailed(validation.errors))
      ELSE tdb_createTask(m, input, time, wok)

tsvc_updateTask(m, id, updates, time, wok) ==
  LET existingTask == tdb_getTaskById(m, id)
      validation == TaskValidator_validateUpdateInput(updates)
  IN  IF existingTask.ret = <<>> THEN Result(existingTask.m, <<>>, NotFound("Task", id))
      ELSE IF ~validation.isValid
        THEN Result(existingTask.m, <<>>, ValidationFailed(validation.errors))
      ELSE tdb_updateTask(existingTask.m, id, updates, time, wok)

tsvc_toggleTask(m, id, time, wok) ==
  LET task == tdb_getTaskById(m, id)
  IN  IF task.ret = <<>> THEN Result(task.m, <<>>, NotFound("Task", id))
      ELSE tdb_toggleTask(task.m, id, time, wok)

\* variant: the delete goes to the store without the existence check
tsvc_deleteTask_unchecked(m, id, wok) == tdb_deleteTask(m, id, wok)

tsvc_deleteTask(m, id, wok) ==
  LET task == tdb_getTaskById(m, id)
  IN  IF task.ret = <<>> THEN Result(task.m, <<>>, NotFound("Task", id))
      ELSE tdb_deleteTask(task.m, id, wok)

\* variant: the number of removed tasks is not passed on
tsvc_deleteTasksByContactId_uncounted(m, contactId, wok) ==
  LET deleted == tdb_deleteTasksByContactId(m, contactId, wok)
  IN  Result(deleted.m, IF deleted.err = NoError THEN 0 ELSE <<>>, deleted.err)

tsvc_deleteTasksByContactId(m, contactId, wok) ==
  tdb_deleteTasksByContactId(m, contactId, wok)

(***************************************************************************)
(* HTTP route handlers (app/api).  A handler returns [m, res, thrown]: the *)
(* store module afterwards, the response [status, success, error, data]    *)
(* and the error the service threw (NoError when none).                    *)
(***************************************************************************)
Response(status, success, error, data) ==
  [status |-> status, success |-> success, error |-> error, data |-> data]

Handled(m, res, thrown) == [m |-> m, res |-> res, thrown |-> thrown]

Failure(m, status, error) == Handled(m, Response(status, FALSE, error, <<>>), NoError)

\* variant: every error caught is answered 500
Caught_serverError(m, error, statuses) ==
  Handled(m, Response(500, FALSE, error, <<>>), error)

\* catch (error): the status is chosen from the text of the message
Caught(m, error, statuses) ==
  Handled(m,
          Response(IF statuses.notFound /\ Includes(error, <<"not found">>) THEN 404
                   ELSE IF statuses.validation /\ Includes(error, <<"Validation failed">>)
                     THEN 400
                   ELSE 500,
                   FALSE, error, <<>>),
          error)

\* POST /api/contacts
contacts_POST(m, body, time, wok) ==
  LET r == csvc_createContact(m, body, time, wok)
  IN  IF r.err # NoError THEN Caught(r.m, r.err, [notFound |-> FALSE, validation |-> TRUE])
      ELSE Handled(r.m, Response(201, TRUE, NoError, r.ret), NoError)

\* PUT /api/contacts/[contactId]
contact_PUT(m, contactId, body, wok) ==
  LET r == csvc_updateContact(m, contactId, body, wok)
  IN  IF contactId = <<>> THEN Failure(m, 400, <<"Contact ID is required">>)
      ELSE IF r.err # NoError
        THEN Caught(r.m, r.err, [notFound |-> TRUE, validation |-> TRUE])
      ELSE Handled(r.m, Response(200, TRUE, NoError, r.ret), NoError)

\* DELETE /api/contacts/[contactId]
contact_DELETE(m, contactId, wok) ==
  LET r == csvc_deleteContact(m, contactId, wok)
  IN  IF contactId = <<>> THEN Failure(m, 400, <<"Contact ID is required">>)
      ELSE IF r.err # NoError
        THEN Caught(r.m, r.err, [notFound |-> TRUE, validation |-> FALSE])
      ELSE IF r.ret = FALSE THEN Failure(r.m, 404, NotFound("Contact", contactId))
      ELSE Handled(r.m, Response(200, TRUE, NoError, <<>>), NoError)

\* { contactId, ...body }: a key of the body replaces the one written before it
SpreadContactId(contactId, body) ==
  [body EXCEPT !.contactId = IF body.contactId # Undefined THEN body.contactId
                             ELSE Str(contactId)]

\* POST /api/contacts/[contactId]/tasks
tasks_POST(m, contactId, body, time, wok) ==
  LET r == tsvc_createTask(m, SpreadContactId(contactId, body), time, wok)
  IN  IF contactId = <<>> THEN Failure(m, 400, <<"Contact ID is required">>)
      ELSE IF r.err # NoError
        THEN Caught(r.m, r.err, [notFound |-> FALSE, validation |-> TRUE])
      ELSE Handled(r.m, Response(201, TRUE, NoError, r.ret), NoError)

IdsRequired == <<"Contact ID and Task ID are required">>
NotOwned == <<"Task does not belong to this contact">>

\* PUT /api/contacts/[contactId]/tasks/[taskId]
task_PUT(m, contactId, taskId, body, time, wok) ==
  LET r == tsvc_updateTask(m, taskId, body, time, wok)
  IN  IF contactId = <<>> \/ taskId = <<>> THEN Failure(m, 400, IdsRequired)
      ELSE IF r.err # NoError
        THEN Caught(r.m, r.err, [notFound |-> TRUE, validation |-> TRUE])
      ELSE IF r.ret[1].contactId # Str(contactId) THEN Failure(r.m, 403, NotOwned)
      ELSE Handled(r.m, Response(200, TRUE, NoError, r.ret), NoError)

\* PATCH /api/contacts/[contactId]/tasks/[taskId]
task_PATCH(m, contactId, taskId, time, wok) ==
  LET r == tsvc_toggleTask(m, taskId, time, wok)
  IN  IF contactId = <<>> \/ taskId = <<>> THEN Failure(m, 400, IdsRequired)
      ELSE IF r.err # NoError
        THEN Caught(r.m, r.err, [notFound |-> TRUE, validation |-> FALSE])
      ELSE IF r.ret[1].contactId # Str(contactId) THEN Failure(r.m, 403, NotOwned)
      ELSE Handled(r.m, Response(200, TRUE, NoError, r.ret), NoError)

\* DELETE /api/contacts/[contactId]/tasks/[taskId]
task_DELETE(m, contactId, taskId, wok) ==
  LET task == tsvc_getTaskById(m, taskId)
      r == tsvc_deleteTask(task.m, taskId, wok)
  IN  IF contactId = <<>> \/ taskId = <<>> THEN Failure(m, 400, IdsRequired)
      ELSE IF task.err # NoError
        THEN Caught(task.m, task.err, [notFound |-> TRUE, validation |-> FALSE])
      ELSE IF task.ret = <<>> THEN Failure(task.m, 404, NotFound("Task", taskId))
      ELSE IF task.ret[1].contactId # Str(contactId) THEN Failure(task.m, 403, NotOwned)
      ELSE IF r.err # NoError
        THEN Caught(r.m, r.err, [notFound |-> TRUE, validation |-> FALSE])
      ELSE IF r.ret = FALSE THEN Failure(r.m, 404, NotFound("Task", taskId))
      ELSE Handled(r.m, Response(200, TRUE, NoError, <<>>), NoError)

(***************************************************************************)
(* Requests the clients send                                               *)
(***************************************************************************)
Phone1 == Str(<<"5", "5", "5", "-", "0", "0", "0", "1">>)
Phone2 == Str(<<"5", "5", "5", "-", "0", "0", "0", "2">>)
AnnLee == Str(<<"A", "n", "n", " ", "L", "e", "e">>)
Bo == Str(<<"B", "o">>)
BlankName == Str(<<" ", "a", " ">>)
Email == Str(<<"a", "@", "b", ".", "c", "o">>)
NoAtEmail == Str(<<"a", "b", ".", "c", "o">>)
Address == Str(<<"1", " ", "M", "a", "i", "n">>)
CallBack == Str(<<"C", "a", "l", "l">>)
SendMail == Str(<<"M", "a", "i", "l">>)
OneLetter == Str(<<"x">>)
PastDate == Str(<<"2", "0", "2", "5", "-", "0", "1", "-", "0", "1">>)
NextYear == Str(<<"2", "0", "2", "6", "-", "0", "1", "-", "0", "1">>)
ShortPhone == Str(<<"5", "5", "5">>)
Blank == Str(<<" ">>)

ContactBody(name, email, phone, address) ==
  [name |-> name, email |-> email, phone |-> phone, address |-> address]

EmptyContactBody == ContactBody(Undefined, Undefined, Undefined, Undefined)

\* bodies of POST /api/contacts
CreateContactBodies ==
  { ContactBody(AnnLee, Email, Phone1, Address),
    ContactBody(Bo, Email, Phone2, Address),
    ContactBody(BlankName, NoAtEmail, Phone1, Address) }

\* bodies of PUT /api/contacts/[contactId]
UpdateContactBodies ==
  { EmptyContactBody,
    [EmptyContactBody EXCEPT !.phone = Phone1],
    [EmptyContactBody EXCEPT !.name = Bo, !.phone = Phone2],
    [EmptyContactBody EXCEPT !.name = BlankName] }

TaskBody(contactId, title, description, completed, dueDate) ==
  [contactId |-> contactId, title |-> title, description |-> description,
   completed |-> completed, dueDate |-> dueDate]

EmptyTaskBody == TaskBody(Undefined, Undefined, Undefined, Undefined, Undefined)

\* bodies of POST /api/contacts/[contactId]/tasks
CreateTaskBodies ==
  { [EmptyTaskBody EXCEPT !.title = CallBack],
    [EmptyTaskBody EXCEPT !.title = CallBack, !.contactId = Str(<<"2">>)],
    [EmptyTaskBody EXCEPT !.title = OneLetter, !.dueDate = PastDate] }

\* bodies of PUT /api/contacts/[contactId]/tasks/[taskId]
UpdateTaskBodies ==
  { EmptyTaskBody,
    [EmptyTaskBody EXCEPT !.title = SendMail],
    [EmptyTaskBody EXCEPT !.title = OneLetter] }

\* ids in the path: the ids a store can assign
PathIds == {NatToString(n) : n \in 1..MaxId}

(***************************************************************************)
(* State                                                                   *)
(***************************************************************************)
VARIABLES
  contactsDb,             \* contactsDb[i]: the array of instance i of the contacts store
  contactsIsInitialized,  \* contactsIsInitialized[i]: its isInitialized flag
  contactsFile,           \* lib/db/contacts/contacts.json
  contactsSaving,         \* contactsSaving[i]: the call whose saveToFile() instance i is about
                          \* to run, its array already changed (at most one)
  tasksDb,                \* the array of the tasks store
  tasksIsInitialized,     \* its isInitialized flag
  tasksFile,              \* lib/db/tasks/tasks.json
  now,                    \* the clock behind new Date()
  calls,                  \* the number of calls served
  applied,                \* the pure function that was applied, its input and its result
  last                    \* the last call: what was asked and what came back

vars == <<contactsDb, contactsIsInitialized, contactsFile, contactsSaving,
          tasksDb, tasksIsInitialized, tasksFile, now, calls, applied, last>>

\* the contacts store module of instance i, and the tasks store module
ContactsModule(i) ==
  [db |-> contactsDb[i], isInitialized |-> contactsIsInitialized[i], file |-> contactsFile]

TasksModule == [db |-> tasksDb, isInitialized |-> tasksIsInitialized, file |-> tasksFile]

SetContactsModule(i, m) ==
  /\ contactsDb' = [contactsDb EXCEPT ![i] = m.db]
  /\ contactsIsInitialized' = [contactsIsInitialized EXCEPT ![i] = m.isInitialized]
  /\ contactsFile' = m.file
  /\ contactsSaving' = contactsSaving

SetTasksModule(m) ==
  /\ tasksDb' = m.db
  /\ tasksIsInitialized' = m.isInitialized
  /\ tasksFile' = m.file

ContactsUnchanged ==
  UNCHANGED <<contactsDb, contactsIsInitialized, contactsFile, contactsSaving>>
TasksUnchanged == UNCHANGED <<tasksDb, tasksIsInitialized, tasksFile>>

\* a call is served while the run has calls left; new Date() reads now
Served ==
  /\ calls < MaxCalls
  /\ calls' = calls + 1
  /\ now' = now
  /\ applied' = applied

\* what is kept of a call: the operation, the ids it was given and its outcome
Call(op, contactId, taskId, res) ==
  [op |-> op, contactId |-> contactId, taskId |-> taskId, res |-> res]

\* the outcome of a call: status of the response (0 when the call is not a
\* request), error message, returned entity (at most one), returned boolean
\* and returned number
Outcome(status, success, error, entity, flag, count) ==
  [status |-> status, success |-> success, error |-> error,
   ret |-> entity, flag |-> flag, count |-> count]

\* the outcome of a request: the response without its data
Responded(h) == Outcome(h.res.status, h.res.success, h.res.error, <<>>, FALSE, 0)

\* the outcome of a service or store call that returns an entity
Returned(r) == Outcome(0, r.err = NoError, r.err, r.ret, FALSE, 0)

\* the outcome of a service or store call that returns a boolean
ReturnedFlag(r) == Outcome(0, r.err = NoError, r.err, <<>>, r.err = NoError /\ r.ret, 0)

\* the outcome of a service or store call that returns a number
ReturnedCount(r) ==
  Outcome(0, r.err = NoError, r.err, <<>>, FALSE, IF r.err = NoError THEN r.ret ELSE 0)

NoCall == Call("none", <<>>, <<>>, Outcome(0, TRUE, NoError, <<>>, FALSE, 0))

\* what is kept of an application: the input, the function and its result
Application(function, input, result) ==
  [input |-> input, function |-> function, result |-> result]

\* no function has been applied
NotApplied == Application("none", <<>>, ValidationResult(<<>>))

\* what earlier runs of the application may have left in the files
SeedContacts ==
  << [id |-> <<"1">>, name |-> AnnLee, email |-> Email, phone |-> Phone1,
      address |-> Address, createdAt |-> 0],
     [id |-> <<"2">>, name |-> Bo, email |-> Email, phone |-> Phone2,
      address |-> Address, createdAt |-> 0] >>

SeedTasks ==
  << [id |-> <<"1">>, contactId |-> Str(<<"1">>), title |-> CallBack,
      description |-> Undefined, completed |-> False, dueDate |-> Undefined,
      createdAt |-> 0, updatedAt |-> 0],
     [id |-> <<"2">>, contactId |-> Str(<<"2">>), title |-> SendMail,
      description |-> Undefined, completed |-> True, dueDate |-> Undefined,
      createdAt |-> 0, updatedAt |-> 0] >>

\* a process starts with nothing loaded; each file is missing, or holds
\* an empty collection, or holds what earlier runs left
Init ==
  /\ contactsDb = [i \in {1} |-> <<>>]
  /\ contactsIsInitialized = [i \in {1} |-> FALSE]
  /\ contactsFile \in {Unreadable, Document(<<>>), Document(SeedContacts)}
  /\ contactsSaving = [i \in {1} |-> <<>>]
  /\ tasksDb = <<>>
  /\ tasksIsInitialized = FALSE
  /\ tasksFile \in {Unreadable, Document(<<>>), Document(SeedTasks)}
  /\ now = 0
  /\ calls = 0
  /\ applied = NotApplied
  /\ last = NoCall

\* two processes start with nothing loaded, each with its own instance of
\* the contacts store module, on one contacts file that can be read
InitShared ==
  /\ contactsDb = [i \in {1, 2} |-> <<>>]
  /\ contactsIsInitialized = [i \in {1, 2} |-> FALSE]
  /\ contactsFile \in {Document(<<>>), Document(<<SeedContacts[1]>>), Document(SeedContacts)}
  /\ contactsSaving = [i \in {1, 2} |-> <<>>]
  /\ tasksDb = <<>>
  /\ tasksIsInitialized = FALSE
  /\ tasksFile = Document(SeedTasks)
  /\ now = 0
  /\ calls = 0
  /\ applied = NotApplied
  /\ last = NoCall

\* the ids a store has assigned stay within MaxId
WithinMaxId(m) ==
  \A k \in DOMAIN m.db : Len(m.db[k].id) = 1 /\ DigitVal(m.db[k].id[1]) <= MaxId

(***************************************************************************)
(* Requests                                                                *)
(***************************************************************************)
POST_contacts(i, body, wok) ==
  /\ Served
  /\ LET h == contacts_POST(ContactsModule(i), body, now, wok)
     IN  /\ WithinMaxId(h.m)
         /\ SetContactsModule(i, h.m)
         /\ last' = Call("POST /api/contacts", <<>>, <<>>, Responded(h))
  /\ TasksUnchanged

PUT_contact(i, contactId, body, wok) ==
  /\ Served
  /\ LET h == contact_PUT(ContactsModule(i), contactId, body, wok)
     IN  /\ SetContactsModule(i, h.m)
         /\ last' = Call("PUT /api/contacts/[contactId]", contactId, <<>>, Responded(h))
  /\ TasksUnchanged

DELETE_contact(i, contactId, wok) ==
  /\ Served
  /\ LET h == contact_DELETE(ContactsModule(i), contactId, wok)
     IN  /\ SetContactsModule(i, h.m)
         /\ last' = Call("DELETE /api/contacts/[contactId]", contactId, <<>>, Responded(h))
  /\ TasksUnchanged

POST_tasks(contactId, body, wok) ==
  /\ Served
  /\ LET h == tasks_POST(TasksModule, contactId, body, now, wok)
     IN  /\ WithinMaxId(h.m)
         /\ SetTasksModule(h.m)
         /\ last' = Call("POST /api/contacts/[contactId]/tasks", contactId, <<>>,
                         Responded(h))
  /\ ContactsUnchanged

PUT_task(contactId, taskId, body, wok) ==
  /\ Served
  /\ LET h == task_PUT(TasksModule, contactId, taskId, body, now, wok)
     IN  /\ SetTasksModule(h.m)
         /\ last' = Call("PUT /api/contacts/[contactId]/tasks/[taskId]", contactId, taskId,
                         Responded(h))
  /\ ContactsUnchanged

PATCH_task(contactId, taskId, wok) ==
  /\ Served
  /\ LET h == task_PATCH(TasksModule, contactId, taskId, now, wok)
     IN  /\ SetTasksModule(h.m)
         /\ last' = Call("PATCH /api/contacts/[contactId]/tasks/[taskId]", contactId,
                         taskId, Responded(h))
  /\ ContactsUnchanged

DELETE_task(contactId, taskId, wok) ==
  /\ Served
  /\ LET h == task_DELETE(TasksModule, contactId, taskId, wok)
     IN  /\ SetTasksModule(h.m)
         /\ last' = Call("DELETE /api/contacts/[contactId]/tasks/[taskId]", contactId,
                         taskId, Responded(h))
  /\ ContactsUnchanged

\* a millisecond passes
Tick ==
  /\ now < MaxTime
  /\ now' = now + 1
  /\ UNCHANGED <<calls, applied, last>>
  /\ ContactsUnchanged
  /\ TasksUnchanged

\* the application serving requests one at a time, every write succeeding
Next ==
  \/ Tick
  \/ \E i \in DOMAIN contactsDb, body \in CreateContactBodies :
       POST_contacts(i, body, TRUE)
  \/ \E i \in DOMAIN contactsDb, contactId \in PathIds, body \in UpdateContactBodies :
       PUT_contact(i, contactId, body, TRUE)
  \/ \E i \in DOMAIN contactsDb, contactId \in PathIds :
       DELETE_contact(i, contactId, TRUE)
  \/ \E contactId \in PathIds, body \in CreateTaskBodies :
       POST_tasks(contactId, body, TRUE)
  \/ \E contactId \in PathIds, taskId \in PathIds, body \in UpdateTaskBodies :
       PUT_task(contactId, taskId, body, TRUE)
  \/ \E contactId \in PathIds, taskId \in PathIds :
       PATCH_task(contactId, taskId, TRUE)
  \/ \E contactId \in PathIds, taskId \in PathIds :
       DELETE_task(contactId, taskId, TRUE)

Spec == Init /\ [][Next]_vars

\* fs.writeFileSync succeeds or, in the first MaxFaulty calls of a run, throws
Writes == IF calls < MaxFaulty THEN BOOLEAN ELSE {TRUE}

\* the application serving requests one at a time on a disk that can fail
NextFaulty ==
  \/ Tick
  \/ \E i \in DOMAIN contactsDb, body \in CreateContactBodies, wok \in Writes :
       POST_contacts(i, body, wok)
  \/ \E i \in DOMAIN contactsDb, contactId \in PathIds, body \in UpdateContactBodies,
        wok \in Writes :
       PUT_contact(i, contactId, body, wok)
  \/ \E i \in DOMAIN contactsDb, contactId \in PathIds, wok \in Writes :
       DELETE_contact(i, contactId, wok)
  \/ \E contactId \in PathIds, body \in CreateTaskBodies, wok \in Writes :
       POST_tasks(contactId, body, wok)
  \/ \E contactId \in PathIds, taskId \in PathIds, body \in UpdateTaskBodies,
        wok \in Writes :
       PUT_task(contactId, taskId, body, wok)
  \/ \E contactId \in PathIds, taskId \in PathIds, wok \in Writes :
       PATCH_task(contactId, taskId, wok)
  \/ \E contactId \in PathIds, taskId \in PathIds, wok \in Writes :
       DELETE_task(contactId, taskId, wok)

SpecFaulty == Init /\ [][NextFaulty]_vars

(***************************************************************************)
(* Calls made on the services directly                                     *)
(***************************************************************************)
\* inputs of taskService.createTask: with and without a contactId
CreateTaskInputs ==
  CreateTaskBodies \cup {[body EXCEPT !.contactId = Str(<<"1">>)] : body \in CreateTaskBodies}
  \cup {[EmptyTaskBody EXCEPT !.contactId = Str(<<"1">>), !.title = SendMail,
                              !.completed = True]}

ContactService_createContact(i, input, wok) ==
  /\ Served
  /\ LET r == csvc_createContact(ContactsModule(i), input, now, wok)
     IN  /\ WithinMaxId(r.m)
         /\ SetContactsModule(i, r.m)
         /\ last' = Call("contactService.createContact", <<>>, <<>>, Returned(r))
  /\ TasksUnchanged

ContactService_updateContact(i, id, updates, wok) ==
  /\ Served
  /\ LET r == csvc_updateContact(ContactsModule(i), id, updates, wok)
     IN  /\ SetContactsModule(i, r.m)
         /\ last' = Call("contactService.updateContact", id, <<>>, Returned(r))
  /\ TasksUnchanged

ContactService_deleteContact(i, id, wok) ==
  /\ Served
  /\ LET r == csvc_deleteContact(ContactsModule(i), id, wok)
     IN  /\ SetContactsModule(i, r.m)
         /\ last' = Call("contactService.deleteContact", id, <<>>, ReturnedFlag(r))
  /\ TasksUnchanged

\* queries of searchContacts: empty, blank, padded and in another case
SearchQueries ==
  { Str(<<>>), Blank, Str(<<" ", "a", "N", " ">>), Str(<<"b", "o">>), Str(<<"@", "B">>),
    OneLetter }

ContactService_searchContacts(i, query) ==
  /\ Served
  /\ LET r == csvc_searchContacts(ContactsModule(i), query)
     IN  /\ SetContactsModule(i, r.m)
         /\ last' = Call("contactService.searchContacts", <<>>, <<>>, Returned(r))
  /\ TasksUnchanged

TaskService_createTask(input, wok) ==
  /\ Served
  /\ LET r == tsvc_createTask(TasksModule, input, now, wok)
     IN  /\ WithinMaxId(r.m)
         /\ SetTasksModule(r.m)
         /\ last' = Call("taskService.createTask", <<>>, <<>>, Returned(r))
  /\ ContactsUnchanged

TaskService_updateTask(id, updates, wok) ==
  /\ Served
  /\ LET r == tsvc_updateTask(TasksModule, id, updates, now, wok)
     IN  /\ SetTasksModule(r.m)
         /\ last' = Call("taskService.updateTask", <<>>, id, Returned(r))
  /\ ContactsUnchanged

TaskService_toggleTask(id, wok) ==
  /\ Served
  /\ LET r == tsvc_toggleTask(TasksModule, id, now, wok)
     IN  /\ SetTasksModule(r.m)
         /\ last' = Call("taskService.toggleTask", <<>>, id, Returned(r))
  /\ ContactsUnchanged

TaskService_deleteTask(id, wok) ==
  /\ Served
  /\ LET r == tsvc_deleteTask(TasksModule, id, wok)
     IN  /\ SetTasksModule(r.m)
         /\ last' = Call("taskService.deleteTask", <<>>, id, ReturnedFlag(r))
  /\ ContactsUnchanged

TaskService_deleteTasksByContactId(contactId, wok) ==
  /\ Served
  /\ LET r == tsvc_deleteTasksByContactId(TasksModule, Str(contactId), wok)
     IN  /\ SetTasksModule(r.m)
         /\ last' = Call("taskService.deleteTasksByContactId", contactId, <<>>, ReturnedCount(r))
  /\ ContactsUnchanged

\* a caller of the two services, one call at a time, every write succeeding
\* UpdateContactInput objects passed to the contact service: the request
\* bodies and one that is malformed and carries a phone
ServiceUpdateContactInputs ==
  UpdateContactBodies \cup {[EmptyContactBody EXCEPT !.name = BlankName, !.phone = Phone2]}

NextService ==
  \/ Tick
  \/ \E i \in DOMAIN contactsDb, input \in CreateContactBodies :
       ContactService_createContact(i, input, TRUE)
  \/ \E i \in DOMAIN contactsDb, id \in PathIds, updates \in ServiceUpdateContactInputs :
       ContactService_updateContact(i, id, updates, TRUE)
  \/ \E i \in DOMAIN contactsDb, id \in PathIds :
       ContactService_deleteContact(i, id, TRUE)
  \/ \E i \in DOMAIN contactsDb, query \in SearchQueries :
       ContactService_searchContacts(i, query)
  \/ \E input \in CreateTaskInputs :
       TaskService_createTask(input, TRUE)
  \/ \E id \in PathIds, updates \in UpdateTaskBodies :
       TaskService_updateTask(id, updates, TRUE)
  \/ \E id \in PathIds :
       TaskService_toggleTask(id, TRUE)
  \/ \E id \in PathIds :
       TaskService_deleteTask(id, TRUE)
  \/ \E contactId \in PathIds :
       TaskService_deleteTasksByContactId(contactId, TRUE)

SpecService == Init /\ [][NextService]_vars

(***************************************************************************)
(* Calls made on the stores directly: the stores validate nothing          *)
(***************************************************************************)
\* partial inputs of the stores' updates: null is a defined value
StoreUpdateContactInputs ==
  UpdateContactBodies \cup {[EmptyContactBody EXCEPT !.email = Null, !.address = Address]}

StoreUpdateTaskInputs ==
  UpdateTaskBodies \cup {[EmptyTaskBody EXCEPT !.completed = True, !.description = Null],
                         [EmptyTaskBody EXCEPT !.completed = Null]}

Contacts_createContact(i, input, wok) ==
  /\ Served
  /\ LET r == cdb_createContact(ContactsModule(i), input, now, wok)
     IN  /\ WithinMaxId(r.m)
         /\ SetContactsModule(i, r.m)
         /\ last' = Call("contacts.createContact", <<>>, <<>>, Returned(r))
  /\ TasksUnchanged

Contacts_updateContact(i, id, updates, wok) ==
  /\ Served
  /\ LET r == cdb_updateContact(ContactsModule(i), id, updates, wok)
     IN  /\ SetContactsModule(i, r.m)
         /\ last' = Call("contacts.updateContact", id, <<>>, Returned(r))
  /\ TasksUnchanged

Contacts_deleteContact(i, id, wok) ==
  /\ Served
  /\ LET r == cdb_deleteContact(ContactsModule(i), id, wok)
     IN  /\ SetContactsModule(i, r.m)
         /\ last' = Call("contacts.deleteContact", id, <<>>, ReturnedFlag(r))
  /\ TasksUnchanged

Tasks_createTask(input, wok) ==
  /\ Served
  /\ LET r == tdb_createTask(TasksModule, input, now, wok)
     IN  /\ WithinMaxId(r.m)
         /\ SetTasksModule(r.m)
         /\ last' = Call("tasks.createTask", <<>>, <<>>, Returned(r))
  /\ ContactsUnchanged

Tasks_updateTask(id, updates, wok) ==
  /\ Served
  /\ LET r == tdb_updateTask(TasksModule, id, updates, now, wok)
     IN  /\ SetTasksModule(r.m)
         /\ last' = Call("tasks.updateTask", <<>>, id, Returned(r))
  /\ ContactsUnchanged

Tasks_toggleTask(id, wok) ==
  /\ Served
  /\ LET r == tdb_toggleTask(TasksModule, id, now, wok)
     IN  /\ SetTasksModule(r.m)
         /\ last' = Call("tasks.toggleTask", <<>>, id, Returned(r))
  /\ ContactsUnchanged

Tasks_deleteTask(id, wok) ==
  /\ Served
  /\ LET r == tdb_deleteTask(TasksModule, id, wok)
     IN  /\ SetTasksModule(r.m)
         /\ last' = Call("tasks.deleteTask", <<>>, id, ReturnedFlag(r))
  /\ ContactsUnchanged

Tasks_deleteTasksByContactId(contactId, wok) ==
  /\ Served
  /\ LET r == tdb_deleteTasksByContactId(TasksModule, Str(contactId), wok)
     IN  /\ SetTasksModule(r.m)
         /\ last' = Call("tasks.deleteTasksByContactId", contactId, <<>>, ReturnedCount(r))
  /\ ContactsUnchanged

\* a caller of the two stores, one call at a time, every write succeeding
NextStore ==
  \/ Tick
  \/ \E i \in DOMAIN contactsDb, input \in CreateContactBodies :
       Contacts_createContact(i, input, TRUE)
  \/ \E i \in DOMAIN contactsDb, id \in PathIds, updates \in StoreUpdateContactInputs :
       Contacts_updateContact(i, id, updates, TRUE)
  \/ \E i \in DOMAIN contactsDb, id \in PathIds :
       Contacts_deleteContact(i, id, TRUE)
  \/ \E input \in CreateTaskInputs :
       Tasks_createTask(input, TRUE)
  \/ \E id \in PathIds, updates \in StoreUpdateTaskInputs :
       Tasks_updateTask(id, updates, TRUE)
  \/ \E id \in PathIds :
       Tasks_toggleTask(id, TRUE)
  \/ \E id \in PathIds :
       Tasks_deleteTask(id, TRUE)
  \/ \E contactId \in PathIds :
       Tasks_deleteTasksByContactId(contactId, TRUE)

SpecStore == Init /\ [][NextStore]_vars

(***************************************************************************)
(* Every exported operation of the two stores, on a disk that can fail     *)
(***************************************************************************)
\* the outcome of a store call that returns an array: its length
ReturnedLength(r) ==
  Outcome(0, r.err = NoError, r.err, <<>>, FALSE, IF r.err = NoError THEN Len(r.ret) ELSE 0)

\* a call of the contacts store that returns what it reads
Contacts_read(i, operation, id, m, outcome) ==
  /\ Served
  /\ SetContactsModule(i, m)
  /\ last' = Call(operation, id, <<>>, outcome)
  /\ TasksUnchanged

\* a call of the tasks store that returns what it reads
Tasks_read(operation, contactId, id, m, outcome) ==
  /\ Served
  /\ SetTasksModule(m)
  /\ last' = Call(operation, contactId, id, outcome)
  /\ ContactsUnchanged

Contacts_resetDatabase(i, wok) ==
  /\ Served
  /\ LET r == resetDatabase(ContactsModule(i), wok, ContactSaveFailed)
     IN  /\ SetContactsModule(i, r.m)
         /\ last' = Call("contacts.resetDatabase", <<>>, <<>>, Returned(r))
  /\ TasksUnchanged

Tasks_resetDatabase(wok) ==
  /\ Served
  /\ LET r == resetDatabase(TasksModule, wok, TaskSaveFailed)
     IN  /\ SetTasksModule(r.m)
         /\ last' = Call("tasks.resetDatabase", <<>>, <<>>, Returned(r))
  /\ ContactsUnchanged

\* the strings searchContacts of the store is given
StoreQueries == {<<>>, <<"a", "N">>, <<"@", "B">>}

\* a caller of the two stores, one call at a time, on a disk that can fail
NextStoreAll ==
  \/ Tick
  \/ \E i \in DOMAIN contactsDb :
       LET r == cdb_getAllContacts(ContactsModule(i))
       IN  Contacts_read(i, "contacts.getAllContacts", <<>>, r.m, ReturnedLength(r))
  \/ \E i \in DOMAIN contactsDb, id \in PathIds :
       LET r == cdb_getContactById(ContactsModule(i), id)
       IN  Contacts_read(i, "contacts.getContactById", id, r.m, Returned(r))
  \/ \E i \in DOMAIN contactsDb, phone \in {Phone1, Phone2} :
       LET r == cdb_getContactByPhone(ContactsModule(i), phone)
       IN  Contacts_read(i, "contacts.getContactByPhone", <<>>, r.m, Returned(r))
  \/ \E i \in DOMAIN contactsDb, query \in StoreQueries :
       LET r == cdb_searchContacts(ContactsModule(i), query)
       IN  Contacts_read(i, "contacts.searchContacts", <<>>, r.m, ReturnedLength(r))
  \/ \E i \in DOMAIN contactsDb :
       LET r == cdb_getContactCount(ContactsModule(i))
       IN  Contacts_read(i, "contacts.getContactCount", <<>>, r.m, ReturnedCount(r))
  \/ \E i \in DOMAIN contactsDb, input \in CreateContactBodies, wok \in Writes :
       Contacts_createContact(i, input, wok)
  \/ \E i \in DOMAIN contactsDb, id \in PathIds, updates \in StoreUpdateContactInputs,
        wok \in Writes :
       Contacts_updateContact(i, id, updates, wok)
  \/ \E i \in DOMAIN contactsDb, id \in PathIds, wok \in Writes :
       Contacts_deleteContact(i, id, wok)
  \/ \E i \in DOMAIN contactsDb, wok \in Writes :
       Contacts_resetDatabase(i, wok)
  \/ LET r == tdb_getAllTasks(TasksModule)
     IN  Tasks_read("tasks.getAllTasks", <<>>, <<>>, r.m, ReturnedLength(r))
  \/ \E contactId \in PathIds :
       LET r == tdb_getTasksByContactId(TasksModule, Str(contactId))
       IN  Tasks_read("tasks.getTasksByContactId", contactId, <<>>, r.m, ReturnedLength(r))
  \/ \E id \in PathIds :
       LET r == tdb_getTaskById(TasksModule, id)
       IN  Tasks_read("tasks.getTaskById", <<>>, id, r.m, Returned(r))
  \/ LET r == tdb_getTaskCount(TasksModule)
     IN  Tasks_read("tasks.getTaskCount", <<>>, <<>>, r.m, ReturnedCount(r))
  \/ \E input \in CreateTaskInputs, wok \in Writes :
       Tasks_createTask(input, wok)
  \/ \E id \in PathIds, updates \in StoreUpdateTaskInputs, wok \in Writes :
       Tasks_updateTask(id, updates, wok)
  \/ \E id \in PathIds, wok \in Writes :
       Tasks_toggleTask(id, wok)
  \/ \E id \in PathIds, wok \in Writes :
       Tasks_deleteTask(id, wok)
  \/ \E contactId \in PathIds, wok \in Writes :
       Tasks_deleteTasksByContactId(contactId, wok)
  \/ \E wok \in Writes :
       Tasks_resetDatabase(wok)

SpecStoreAll == Init /\ [][NextStoreAll]_vars

(***************************************************************************)
(* Two processes on one contacts file                                      *)
(***************************************************************************)
\* the contact service called in either process, one call at a time, every
\* read and write succeeding
NextShared ==
  \/ Tick
  \/ \E i \in DOMAIN contactsDb, input \in CreateContactBodies :
       ContactService_createContact(i, input, TRUE)
  \/ \E i \in DOMAIN contactsDb, id \in PathIds, updates \in ServiceUpdateContactInputs :
       ContactService_updateContact(i, id, updates, TRUE)
  \/ \E i \in DOMAIN contactsDb, id \in PathIds :
       ContactService_deleteContact(i, id, TRUE)
  \/ \E i \in DOMAIN contactsDb, query \in SearchQueries :
       ContactService_searchContacts(i, query)

SpecShared == InitShared /\ [][NextShared]_vars

\* a write of the contacts store up to its saveToFile(): stopped is the
\* function's result when writeFileSync throws, that is the module with the
\* array changed and the file untouched; a function that returns or throws
\* before saveToFile() ends here, the others end with Contacts_persist
Contacts_begin(i, operation, id, stopped, outcome) ==
  /\ Served
  /\ contactsSaving[i] = <<>>
  /\ WithinMaxId(stopped.m)
  /\ contactsDb' = [contactsDb EXCEPT ![i] = stopped.m.db]
  /\ contactsIsInitialized' = [contactsIsInitialized EXCEPT ![i] = stopped.m.isInitialized]
  /\ contactsFile' = contactsFile
  /\ IF stopped.err = ContactSaveFailed
       THEN /\ contactsSaving' =
                 [contactsSaving EXCEPT ![i] = <<Call(operation, id, <<>>, outcome)>>]
            /\ last' = last
       ELSE /\ contactsSaving' = contactsSaving
            /\ last' = Call(operation, id, <<>>, outcome)
  /\ TasksUnchanged

\* saveToFile() that adds the contacts of the array to those of the file
Contacts_persist_merging(i) ==
  /\ contactsSaving[i] # <<>>
  /\ contactsFile' =
       Document(contactsFile.rows
                \o SelectSeq(contactsDb[i],
                             LAMBDA c : \A k \in DOMAIN contactsFile.rows :
                                          contactsFile.rows[k] # c))
  /\ contactsSaving' = [contactsSaving EXCEPT ![i] = <<>>]
  /\ last' = contactsSaving[i][1]
  /\ UNCHANGED <<contactsDb, contactsIsInitialized, now, calls, applied>>
  /\ TasksUnchanged

\* saveToFile() of the write that instance i began, and its return
Contacts_persist(i) ==
  /\ contactsSaving[i] # <<>>
  /\ contactsFile' = saveToFile(ContactsModule(i), <<>>, TRUE, ContactSaveFailed).m.file
  /\ contactsSaving' = [contactsSaving EXCEPT ![i] = <<>>]
  /\ last' = contactsSaving[i][1]
  /\ UNCHANGED <<contactsDb, contactsIsInitialized, now, calls, applied>>
  /\ TasksUnchanged

\* two processes that write to the contacts store at the same time: the
\* steps of one write, which are synchronous in its process, interleave with
\* the steps of the other process
NextRace ==
  \/ Tick
  \/ \E i \in DOMAIN contactsDb, input \in CreateContactBodies :
       Contacts_begin(i, "contacts.createContact", <<>>,
                      cdb_createContact(ContactsModule(i), input, now, FALSE),
                      Returned(cdb_createContact(ContactsModule(i), input, now, TRUE)))
  \/ \E i \in DOMAIN contactsDb, id \in PathIds, updates \in StoreUpdateContactInputs :
       Contacts_begin(i, "contacts.updateContact", id,
                      cdb_updateContact(ContactsModule(i), id, updates, FALSE),
                      Returned(cdb_updateContact(ContactsModule(i), id, updates, TRUE)))
  \/ \E i \in DOMAIN contactsDb, id \in PathIds :
       Contacts_begin(i, "contacts.deleteContact", id,
                      cdb_deleteContact(ContactsModule(i), id, FALSE),
                      ReturnedFlag(cdb_deleteContact(ContactsModule(i), id, TRUE)))
  \/ \E i \in DOMAIN contactsDb :
       Contacts_persist(i)

SpecRace == InitShared /\ [][NextRace]_vars

(***************************************************************************)
(* The pure functions applied to inputs of every shape                     *)
(***************************************************************************)
\* CreateContactInput / UpdateContactInput objects as a caller can pass them:
\* a field is valid, invalid, absent (undefined) or null
ContactInputs ==
  { ContactBody(name, email, phone, address) :
      name \in {AnnLee, BlankName, Undefined},
      email \in {Email, NoAtEmail, Undefined},
      phone \in {Phone1, ShortPhone, Undefined, Null},
      address \in {Address, OneLetter, Undefined} }

\* CreateTaskInput / UpdateTaskInput objects as a caller can pass them
TaskInputs ==
  { TaskBody(contactId, title, description, Undefined, dueDate) :
      contactId \in {Str(<<"1">>), Blank, Undefined},
      title \in {CallBack, OneLetter, Undefined},
      description \in {OneLetter, True, Null, Undefined},
      dueDate \in {NextYear, PastDate, OneLetter, Undefined} }

\* contacts to sort: names and emails whose order depends on the case, and
\* two contacts created at the same time
SortSamples ==
  { SeedContacts[1], SeedContacts[2],
    [id |-> <<"3">>, name |-> Str(<<"a", "l">>), email |-> Str(<<"Z", "@", "b", ".", "c", "o">>),
     phone |-> Phone1, address |-> Address, createdAt |-> MaxTime] }

\* the arrays of up to MaxSorted sample contacts, in every order
SortArrays == UNION {[1..n -> SortSamples] : n \in 0..MaxSorted}

SortInput(contacts, sortBy, direction) ==
  [sortBy |-> sortBy, direction |-> direction, contacts |-> contacts]

\* the error lists the validators produce
ValidationErrorLists ==
  ({ContactValidator_validateCreateInput(input).errors : input \in ContactInputs}
   \cup {ContactValidator_validateUpdateInput(input).errors : input \in ContactInputs}
   \cup {TaskValidator_validateCreateInput(input).errors : input \in TaskInputs}
   \cup {TaskValidator_validateUpdateInput(input).errors : input \in TaskInputs})
  \ {<<>>}

\* the error strings of a response: the services' validation failures and
\* their other failures
ErrorMessages ==
  {ValidationFailed(errors) : errors \in ValidationErrorLists}
  \cup {PhoneExists, NotFound("Contact", <<"1">>), ContactSaveFailed,
        <<"Failed to search contacts">>, <<>>}

\* one function is applied to one input
Applied(function, input, result) ==
  /\ applied = NotApplied
  /\ applied' = Application(function, input, result)
  /\ UNCHANGED <<now, calls, last>>
  /\ ContactsUnchanged
  /\ TasksUnchanged

NextFunctions ==
  \/ \E input \in ContactInputs :
       Applied("ContactValidator.validateCreateInput", input,
                 ContactValidator_validateCreateInput(input))
  \/ \E input \in ContactInputs :
       Applied("ContactValidator.validateUpdateInput", input,
                 ContactValidator_validateUpdateInput(input))
  \/ \E input \in TaskInputs :
       Applied("TaskValidator.validateCreateInput", input,
                 TaskValidator_validateCreateInput(input))
  \/ \E input \in TaskInputs :
       Applied("TaskValidator.validateUpdateInput", input,
                 TaskValidator_validateUpdateInput(input))
  \/ \E contacts \in SortArrays, sortBy \in {"name", "email", "createdAt"},
        direction \in {"asc", "desc"} :
       Applied("contactService.sortContacts", SortInput(contacts, sortBy, direction),
               sortContacts(contacts, sortBy, direction))
  \/ \E errorMessage \in ErrorMessages :
       Applied("parseValidationErrors", errorMessage, parseValidationErrors(errorMessage))

SpecFunctions == Init /\ [][NextFunctions]_vars

(***************************************************************************)
(* Properties                                                              *)
(***************************************************************************)
\* the collection a store holds once it has loaded its file
Contacts(i) == initializeDatabase(ContactsModule(i)).db
Tasks == initializeDatabase(TasksModule).db

\* the collection a store holds after the step
ContactsAfter(i) ==
  initializeDatabase([db |-> contactsDb'[i], isInitialized |-> contactsIsInitialized'[i],
                      file |-> contactsFile']).db
TasksAfter ==
  initializeDatabase([db |-> tasksDb', isInitialized |-> tasksIsInitialized',
                      file |-> tasksFile']).db

\* the step serves a call
Calling == calls' = calls + 1

Absent(db, id) == \A k \in DOMAIN db : db[k].id # id
Position(db, id) == CHOOSE k \in DOMAIN db : db[k].id = id

PhonesDistinct(db) == \A a, b \in DOMAIN db : a # b => db[a].phone # db[b].phone

\* C1: whatever contact service calls were made, successful or failed, no two
\* distinct contacts share a phone, neither in the collection in memory nor
\* in the file
C1_PhonesUnique ==
  /\ \A i \in DOMAIN contactsDb : PhonesDistinct(contactsDb[i])
  /\ PhonesDistinct(contactsFile.rows)

\* two contacts are stored and an update asking for the other one's phone
\* has just been refused
C1_Witness ==
  /\ last.op = "contactService.updateContact"
  /\ ~last.res.success
  /\ Includes(last.res.error, <<"Phone number already exists">>)
  /\ Len(contactsDb[1]) = 2
  /\ contactsDb[1][1].phone # contactsDb[1][2].phone

\* C2: when DELETE /api/contacts/{contactId} answers success, the contact is
\* gone and the task store holds no task whose contactId is that contact's
C2_CascadeDelete ==
  [][(/\ Calling
      /\ last'.op = "DELETE /api/contacts/[contactId]"
      /\ last'.res.success)
     => (/\ Absent(ContactsAfter(1), last'.contactId)
         /\ \A k \in DOMAIN TasksAfter : TasksAfter[k].contactId # Str(last'.contactId)
         /\ \A k \in DOMAIN tasksFile'.rows :
              tasksFile'.rows[k].contactId # Str(last'.contactId))]_vars

TaskItemRequests ==
  { "PUT /api/contacts/[contactId]/tasks/[taskId]",
    "PATCH /api/contacts/[contactId]/tasks/[taskId]",
    "DELETE /api/contacts/[contactId]/tasks/[taskId]" }

\* C3: a PUT, PATCH or DELETE of a task that exists and belongs to another
\* contact than the one in the path is answered 403, success false,
\* 'Task does not belong to this contact'
C3_OwnershipFailure ==
  [][(/\ Calling
      /\ last'.op \in TaskItemRequests
      /\ \E k \in DOMAIN Tasks : /\ Tasks[k].id = last'.taskId
                                 /\ Tasks[k].contactId # Str(last'.contactId))
     => (/\ last'.res.status = 403
         /\ ~last'.res.success
         /\ last'.res.error = <<"Task does not belong to this contact">>)]_vars

\* C4: a task created through POST /api/contacts/{contactId}/tasks carries
\* the contactId of the path, whatever the body holds
C4_PathContactId ==
  [][(/\ Calling
      /\ last'.op = "POST /api/contacts/[contactId]/tasks"
      /\ last'.res.success)
     => (/\ Len(TasksAfter) = Len(Tasks) + 1
         /\ TasksAfter[Len(TasksAfter)].contactId = Str(last'.contactId))]_vars

IdsDistinct(db) == \A a, b \in DOMAIN db : a # b => db[a].id # db[b].id

\* the number an id spells
IdNumber(id) == CHOOSE n \in 0..(MaxId + 1) : NatToString(n) = id

\* the largest number spelled by an id of the collection, 0 when it is empty
LargestId(db) ==
  CHOOSE n \in 0..(MaxId + 1) :
    /\ n = 0 \/ \E k \in DOMAIN db : IdNumber(db[k].id) = n
    /\ \A k \in DOMAIN db : IdNumber(db[k].id) <= n

\* new is old with one entity appended, whose id is the largest id + 1 and
\* is the id of no entity of old
CreatedNext(old, new) ==
  /\ Len(new) = Len(old) + 1
  /\ SubSeq(new, 1, Len(old)) = old
  /\ new[Len(new)].id = NatToString(LargestId(old) + 1)
  /\ Absent(old, new[Len(new)].id)

\* C5: in each store the ids are pairwise distinct in every state, in memory
\* and in the file, and a create gives the new entity the id max + 1, an id
\* no entity of the store has at that moment
C5_FreshIds ==
  /\ [](/\ \A i \in DOMAIN contactsDb : IdsDistinct(contactsDb[i])
        /\ IdsDistinct(contactsFile.rows)
        /\ IdsDistinct(tasksDb)
        /\ IdsDistinct(tasksFile.rows))
  /\ [][/\ (Calling /\ last'.op = "contacts.createContact")
             => CreatedNext(Contacts(1), contactsDb'[1])
        /\ (Calling /\ last'.op = "tasks.createTask")
             => CreatedNext(Tasks, tasksDb')]_vars

\* a task has been deleted and the create after it returned the task with
\* id 2 that now closes the collection
C5_Witness ==
  /\ last.op = "tasks.createTask"
  /\ last.res.success
  /\ Len(tasksDb) = 2
  /\ tasksDb[2] = last.res.ret[1]
  /\ tasksDb[2].id = <<"2">>
  /\ tasksDb[1].id = <<"1">>
  /\ tasksDb[2] # SeedTasks[2]

\* C6: contact service createContact with a shape-valid input whose phone is
\* the phone of a stored contact fails with 'Validation failed: phone: Phone
\* number already exists' and leaves the collection and the file as they were
C6_DuplicatePhone ==
  [][\A i \in DOMAIN contactsDb, input \in CreateContactBodies :
       (/\ ContactService_createContact(i, input, TRUE)
        /\ ContactValidator_validateCreateInput(input).isValid
        /\ \E k \in DOMAIN Contacts(i) : Contacts(i)[k].phone = input.phone)
       => (/\ last'.res.error = <<"Validation failed", ":", " ", "phone", ":", " ",
                                  "Phone number already exists">>
           /\ contactsDb'[i] = Contacts(i)
           /\ contactsFile' = contactsFile)]_vars

\* a create has just been refused for its phone while a contact is stored
C6_Witness ==
  /\ last.op = "contactService.createContact"
  /\ last.res.error = <<"Validation failed", ":", " ", "phone", ":", " ",
                        "Phone number already exists">>
  /\ Len(contactsDb[1]) >= 1
  /\ contactsFile = Document(contactsDb[1])

StartsWithValidationFailed(error) == error # <<>> /\ Head(error) = "Validation failed"

\* C7: createContact and createTask of the services, given an input that
\* fails validation, throw an error whose message starts with 'Validation
\* failed' and do not reach the store: array, loaded flag and file stay put
C7_InvalidCreate ==
  [][/\ \A i \in DOMAIN contactsDb, input \in CreateContactBodies :
          (/\ ContactService_createContact(i, input, TRUE)
           /\ ~ContactValidator_validateCreateInput(input).isValid)
          => (/\ StartsWithValidationFailed(last'.res.error)
              /\ UNCHANGED <<contactsDb, contactsIsInitialized, contactsFile>>)
     /\ \A input \in CreateTaskInputs :
          (/\ TaskService_createTask(input, TRUE)
           /\ ~TaskValidator_validateCreateInput(input).isValid)
          => (/\ StartsWithValidationFailed(last'.res.error)
              /\ UNCHANGED <<tasksDb, tasksIsInitialized, tasksFile>>)]_vars

\* a createTask has just been refused by validation and the tasks store has
\* not even loaded its file
C7_Witness ==
  /\ last.op = "taskService.createTask"
  /\ StartsWithValidationFailed(last.res.error)
  /\ ~tasksIsInitialized
  /\ tasksFile = Document(SeedTasks)

\* '<kind> with ID <id> not found'
IsNotFound(error, kind, id) == error = <<kind, " with ID ", Text(id), " ", "not found">>

IsPhoneExists(error) ==
  error = <<"Validation failed", ":", " ", "phone", ":", " ", "Phone number already exists">>

\* the step leaves the contacts collection of instance i and the contacts file alone
ContactsKept(i) == contactsDb'[i] = Contacts(i) /\ contactsFile' = contactsFile

\* the step leaves the tasks collection and the tasks file alone
TasksKept == tasksDb' = Tasks /\ tasksFile' = tasksFile

\* deleteContact of the contact service and updateTask, toggleTask and deleteTask
\* of the task service, given an id the store does not hold, fail with the
\* not-found error and change neither collection nor file
OthersNotFound ==
  /\ \A i \in DOMAIN contactsDb, id \in PathIds :
       (ContactService_deleteContact(i, id, TRUE) /\ Absent(Contacts(i), id))
       => (IsNotFound(last'.res.error, "Contact", id) /\ ContactsKept(i))
  /\ \A id \in PathIds, updates \in UpdateTaskBodies :
       (TaskService_updateTask(id, updates, TRUE) /\ Absent(Tasks, id))
       => (IsNotFound(last'.res.error, "Task", id) /\ TasksKept)
  /\ \A id \in PathIds :
       (TaskService_toggleTask(id, TRUE) /\ Absent(Tasks, id))
       => (IsNotFound(last'.res.error, "Task", id) /\ TasksKept)
  /\ \A id \in PathIds :
       (TaskService_deleteTask(id, TRUE) /\ Absent(Tasks, id))
       => (IsNotFound(last'.res.error, "Task", id) /\ TasksKept)

ContactInputFields == {"name", "email", "phone", "address"}
TaskInputFields == {"title", "description", "completed", "dueDate"}

\* new has the entities of old in the same places, but for the one at place k
OthersKept(old, new, k) ==
  /\ Len(new) = Len(old)
  /\ \A j \in DOMAIN old : j # k => new[j] = old[j]

\* C9: an update of a store leaves every field the partial input does not
\* define as it was; update and toggle never change id and createdAt of a
\* contact nor id, contactId and createdAt of a task; every other entity of
\* the collection is unchanged.  (The input fields are name, email, phone,
\* address for a contact and title, description, completed, dueDate for a
\* task; a task's updatedAt is not an input field.)
C9_UpdateFrame ==
  [][/\ \A i \in DOMAIN contactsDb, id \in PathIds, updates \in StoreUpdateContactInputs :
          (Contacts_updateContact(i, id, updates, TRUE) /\ ~Absent(Contacts(i), id))
          => LET old == Contacts(i)
                 new == contactsDb'[i]
                 k == Position(old, id)
             IN  /\ OthersKept(old, new, k)
                 /\ new[k].id = old[k].id
                 /\ new[k].createdAt = old[k].createdAt
                 /\ \A f \in ContactInputFields :
                      updates[f] = Undefined => new[k][f] = old[k][f]
     /\ \A id \in PathIds, updates \in StoreUpdateTaskInputs :
          (Tasks_updateTask(id, updates, TRUE) /\ ~Absent(Tasks, id))
          => LET k == Position(Tasks, id)
             IN  /\ OthersKept(Tasks, tasksDb', k)
                 /\ tasksDb'[k].id = Tasks[k].id
                 /\ tasksDb'[k].contactId = Tasks[k].contactId
                 /\ tasksDb'[k].createdAt = Tasks[k].createdAt
                 /\ \A f \in TaskInputFields :
                      updates[f] = Undefined => tasksDb'[k][f] = Tasks[k][f]
     /\ \A id \in PathIds :
          (Tasks_toggleTask(id, TRUE) /\ ~Absent(Tasks, id))
          => LET k == Position(Tasks, id)
             IN  /\ OthersKept(Tasks, tasksDb', k)
                 /\ tasksDb'[k].id = Tasks[k].id
                 /\ tasksDb'[k].contactId = Tasks[k].contactId
                 /\ tasksDb'[k].createdAt = Tasks[k].createdAt]_vars

\* task 1 has just been given a new title by an update that defined nothing
\* else: its other fields and task 2 are as they were stored
C9_Witness ==
  /\ last.op = "tasks.updateTask"
  /\ last.taskId = <<"1">>
  /\ last.res.success
  /\ Len(tasksDb) = 2
  /\ tasksDb[1] = [SeedTasks[1] EXCEPT !.title = SendMail, !.updatedAt = tasksDb[1].updatedAt]
  /\ tasksDb[2] = SeedTasks[2]

\* C10: an update of a stored contact with the empty partial input leaves
\* every field of the contact identical; an update of a stored task, the
\* empty one included, sets updatedAt to the time of the call and changes
\* besides it the supplied fields only; a toggle sets updatedAt to the time
\* of the call and changes besides it the completed flag only
C10_EmptyUpdate ==
  [][/\ \A i \in DOMAIN contactsDb, id \in PathIds :
          (Contacts_updateContact(i, id, EmptyContactBody, TRUE) /\ ~Absent(Contacts(i), id))
          => contactsDb'[i][Position(Contacts(i), id)] = Contacts(i)[Position(Contacts(i), id)]
     /\ \A id \in PathIds, updates \in StoreUpdateTaskInputs :
          (Tasks_updateTask(id, updates, TRUE) /\ ~Absent(Tasks, id))
          => LET old == Tasks[Position(Tasks, id)]
                 supplied == {f \in TaskInputFields : updates[f] # Undefined}
             IN  tasksDb'[Position(Tasks, id)] =
                   [f \in DOMAIN old |-> IF f = "updatedAt" THEN now
                                         ELSE IF f \in supplied THEN updates[f]
                                         ELSE old[f]]
     /\ \A id \in PathIds :
          (Tasks_toggleTask(id, TRUE) /\ ~Absent(Tasks, id))
          => LET old == Tasks[Position(Tasks, id)]
                 new == tasksDb'[Position(Tasks, id)]
             IN  new = [old EXCEPT !.updatedAt = now, !.completed = new.completed]]_vars

\* task 1, stored at time 0, has just been updated with the empty partial
\* input at time 1: only its updatedAt differs from what was stored
C10_Witness ==
  /\ last.op = "tasks.updateTask"
  /\ last.taskId = <<"1">>
  /\ last.res.success
  /\ now = 1
  /\ tasksDb[1] = [SeedTasks[1] EXCEPT !.updatedAt = 1]
  /\ tasksDb[1].createdAt = 0

\* the task with this id after toggleTask has been called on it twice
ToggledTwice(id) ==
  LET once == tdb_toggleTask(TasksModule, id, now, TRUE)
      twice == tdb_toggleTask(once.m, id, now, TRUE)
  IN  twice.ret[1]

Referencing(db, contactId) == {k \in DOMAIN db : db[k].contactId = Str(contactId)}

\* what is left of db, in order, when the tasks at the places gone are taken out
RECURSIVE Without(_, _)
Without(db, gone) ==
  IF db = <<>> THEN <<>>
  ELSE Without(SubSeq(db, 1, Len(db) - 1), gone)
       \o (IF Len(db) \in gone THEN <<>> ELSE <<db[Len(db)]>>)

\* C12: deleteTasksByContactId(c) leaves no task with contactId c, leaves
\* every task with another contactId in the collection, unchanged and in
\* its order, and returns the number of tasks that had contactId c
C12_DeleteByContact ==
  [][\A contactId \in PathIds :
       TaskService_deleteTasksByContactId(contactId, TRUE)
       => (/\ Referencing(tasksDb', contactId) = {}
           /\ tasksDb' = Without(Tasks, Referencing(Tasks, contactId))
           /\ last'.res.success
           /\ last'.res.count = Cardinality(Referencing(Tasks, contactId)))]_vars

\* the call for contact 1 has just removed one task, the only one of
\* contact 1, and the task of contact 2 is what the store still holds
C12_Witness ==
  /\ last.op = "taskService.deleteTasksByContactId"
  /\ last.contactId = <<"1">>
  /\ last.res.count = 1
  /\ tasksDb = <<SeedTasks[2]>>
  /\ tasksFile = Document(tasksDb)

\* C13: deleteTasksByContactId for a contactId that no task has returns 0
\* and writes nothing: the tasks file is what it was, a missing file stays
\* missing
C13_NothingToDelete ==
  [][\A contactId \in PathIds :
       (/\ Tasks_deleteTasksByContactId(contactId, TRUE)
        /\ Referencing(Tasks, contactId) = {})
       => (/\ last'.res.success
           /\ last'.res.count = 0
           /\ tasksFile' = tasksFile
           /\ tasksDb' = Tasks)]_vars

\* the call has just returned 0 on a store whose file is missing, and the
\* file is still missing
C13_Witness ==
  /\ last.op = "tasks.deleteTasksByContactId"
  /\ last.res.success
  /\ last.res.count = 0
  /\ tasksIsInitialized
  /\ tasksDb = <<>>
  /\ tasksFile = Unreadable

ContactStoreCalls ==
  {"contacts.createContact", "contacts.updateContact", "contacts.deleteContact"}
TaskStoreCalls ==
  {"tasks.createTask", "tasks.updateTask", "tasks.toggleTask", "tasks.deleteTask",
   "tasks.deleteTasksByContactId"}

\* the collection a store that has loaded nothing yet gets from the file
FreshLoad(file) ==
  initializeDatabase([db |-> <<>>, isInitialized |-> FALSE, file |-> file]).db

\* the call of the step created, changed or removed something
Mutated(outcome) ==
  outcome.success /\ (outcome.ret # <<>> \/ outcome.flag \/ outcome.count > 0)

\* C14, as stated: after every store operation that completed without an
\* error the file holds the document of the in-memory collection
C14_FileEqualsMemory ==
  /\ (last.op \in ContactStoreCalls /\ last.res.success)
       => \A i \in DOMAIN contactsDb : contactsFile = Document(contactsDb[i])
  /\ (last.op \in TaskStoreCalls /\ last.res.success)
       => tasksFile = Document(tasksDb)

\* C14, amended: a store that has loaded holds what a fresh store would load
\* from the file, and a readable file holds the document of the in-memory
\* collection; after a store operation that created, changed or removed an
\* entity the file holds the document of the in-memory collection.  A
\* missing or unparsable file stays as it is through operations that write
\* nothing, with an empty collection in memory
C14_FileMirrorsMemory ==
  /\ [](/\ \A i \in DOMAIN contactsDb :
             contactsIsInitialized[i]
             => /\ FreshLoad(contactsFile) = contactsDb[i]
                /\ contactsFile.ok => contactsFile = Document(contactsDb[i])
        /\ tasksIsInitialized
             => /\ FreshLoad(tasksFile) = tasksDb
                /\ tasksFile.ok => tasksFile = Document(tasksDb))
  /\ [][(Calling /\ Mutated(last'.res))
        => /\ last'.op \in ContactStoreCalls
                => \A i \in DOMAIN contactsDb : contactsFile' = Document(contactsDb'[i])
           /\ last'.op \in TaskStoreCalls => tasksFile' = Document(tasksDb')]_vars

\* a second contact has just been created in a store that had loaded one,
\* and the file holds both
C14_Witness ==
  /\ last.op = "contacts.createContact"
  /\ last.res.success
  /\ Len(contactsDb[1]) = 2
  /\ contactsDb[1][2].id = <<"2">>
  /\ last.res.ret = <<contactsDb[1][2]>>
  /\ contactsFile = Document(contactsDb[1])
  /\ calls = 2

\* C15: createTask with a contactId that is the id of no contact fails
\* with an error and the tasks collection is what it was
C15_ContactMustExist ==
  [][\A input \in CreateTaskInputs :
       (/\ TaskService_createTask(input, TRUE)
        /\ \A i \in DOMAIN contactsDb :
             \A k \in DOMAIN Contacts(i) : Str(Contacts(i)[k].id) # input.contactId)
       => (/\ ~last'.res.success
           /\ TasksAfter = Tasks)]_vars

\* the step applies this function: applied' holds its input and its result
Applying(function) == applied = NotApplied /\ applied'.function = function

ContactFields == <<"name", "email", "phone", "address">>
TaskFields == <<"contactId", "title", "description", "dueDate">>
UpdatedTaskFields == <<"title", "description", "dueDate">>

\* the single-field check of a field
FieldCheck(field, value) ==
  CASE field = "name" -> ContactValidator_validateName(value)
    [] field = "email" -> ContactValidator_validateEmail(value)
    [] field = "phone" -> ContactValidator_validatePhone(value)
    [] field = "address" -> ContactValidator_validateAddress(value)
    [] field = "contactId" -> TaskValidator_validateContactId(value)
    [] field = "title" -> TaskValidator_validateTitle(value)
    [] field = "description" -> TaskValidator_validateDescription(value)
    [] field = "dueDate" -> TaskValidator_validateDueDate(value)

\* the entries of the error list that are about this field
EntriesOf(errors, field) == {k \in DOMAIN errors : errors[k].field = field}

\* the place of a field in the order of the fields
Rank(fields, field) == CHOOSE k \in DOMAIN fields : fields[k] = field

\* the entries are about these fields and come in the order of the fields
InFieldOrder(errors, fields) ==
  /\ \A k \in DOMAIN errors : \E f \in DOMAIN fields : errors[k].field = fields[f]
  /\ \A a, b \in DOMAIN errors :
       a < b => Rank(fields, errors[a].field) < Rank(fields, errors[b].field)

\* every field of fields is checked: one entry, with the message of the
\* single-field check, when the check fails and none when it passes
EveryFieldChecked(result, input, fields) ==
  /\ \A f \in DOMAIN fields :
       LET check == FieldCheck(fields[f], input[fields[f]])
           entries == EntriesOf(result.errors, fields[f])
       IN  IF check.isValid THEN entries = {}
           ELSE /\ Cardinality(entries) = 1
                /\ \A k \in entries : result.errors[k].message = check.error
  /\ InFieldOrder(result.errors, fields)
  /\ result.isValid <=> result.errors = <<>>

\* C16: validateCreateInput of the contact validator and of the task
\* validator checks every field, also after a field has failed: the result
\* has one error entry for every field whose check fails and none for the
\* others, in the order name, email, phone, address (contactId, title,
\* description, dueDate), and isValid is true exactly when there is no entry
C16_AllFieldsChecked ==
  [][/\ Applying("ContactValidator.validateCreateInput")
          => EveryFieldChecked(applied'.result, applied'.input, ContactFields)
     /\ Applying("TaskValidator.validateCreateInput")
          => EveryFieldChecked(applied'.result, applied'.input, TaskFields)]_vars

\* the contact validator has been given an input whose four fields all
\* fail, and the result has the four entries in order
C16_Witness ==
  /\ applied.function = "ContactValidator.validateCreateInput"
  /\ applied.input = ContactBody(BlankName, NoAtEmail, ShortPhone, OneLetter)
  /\ ~applied.result.isValid
  /\ [k \in DOMAIN applied.result.errors |-> applied.result.errors[k].field]
       = ContactFields

\* only the present fields of fields are checked: no entry for an absent
\* field, and for a present field an entry exactly when its check fails
PresentFieldsChecked(result, input, fields) ==
  /\ \A f \in DOMAIN fields :
       LET check == FieldCheck(fields[f], input[fields[f]])
           entries == EntriesOf(result.errors, fields[f])
       IN  IF input[fields[f]] = Undefined THEN entries = {}
           ELSE (entries # {} <=> ~check.isValid)
  /\ InFieldOrder(result.errors, fields)
  /\ result.isValid <=> result.errors = <<>>
  /\ (\A f \in DOMAIN fields : input[fields[f]] = Undefined) => result.isValid

\* C17: validateUpdateInput checks only the fields that are not undefined:
\* an object without fields is valid, an absent field has no error entry and
\* a present field has one exactly when its single-field check fails
C17_PresentFieldsOnly ==
  [][/\ Applying("ContactValidator.validateUpdateInput")
          => PresentFieldsChecked(applied'.result, applied'.input, ContactFields)
     /\ Applying("TaskValidator.validateUpdateInput")
          => PresentFieldsChecked(applied'.result, applied'.input, UpdatedTaskFields)]_vars

\* the task validator has been given an update without a title and with a
\* due date in the past: the one entry is about the due date
C17_Witness ==
  /\ applied.function = "TaskValidator.validateUpdateInput"
  /\ applied.input.title = Undefined
  /\ applied.input.dueDate = PastDate
  /\ applied.input.description = Undefined
  /\ Len(applied.result.errors) = 1
  /\ applied.result.errors[1].field = "dueDate"

\* two characters that are the same letter in either case, or the same
\* character
SameCharacter(a, b) ==
  \/ a = b
  \/ \E k \in DOMAIN UpperCase : {a, b} = {UpperCase[k], LowerCase[k]}

\* text has needle in it, whatever the case of the letters
Contains(text, needle) ==
  \E offset \in 0..(Len(text) - Len(needle)) :
    \A j \in DOMAIN needle : SameCharacter(text[offset + j], needle[j])

\* the places of db whose contact has the query in its name or its email
Matching(db, query) ==
  {k \in DOMAIN db : Contains(db[k].name.s, query) \/ Contains(db[k].email.s, query)}

\* C18: searchContacts(query) returns every contact when the query is empty
\* or whitespace only, and otherwise the contacts, in their order, whose
\* name or email has the trimmed query in it in whatever case, and no
\* others; the collection and the file of the store are what they were
C18_Search ==
  [][\A i \in DOMAIN contactsDb, query \in SearchQueries :
       ContactService_searchContacts(i, query)
       => (/\ last'.res.success
           /\ last'.res.ret =
                IF Trim(query.s) = <<>> THEN Contacts(i)
                ELSE Without(Contacts(i),
                             DOMAIN Contacts(i) \ Matching(Contacts(i), Trim(query.s)))
           /\ ContactsAfter(i) = Contacts(i)
           /\ contactsFile' = contactsFile)]_vars

\* a search has just returned Ann Lee alone out of the two seeded contacts
C18_Witness ==
  /\ last.op = "contactService.searchContacts"
  /\ last.res.success
  /\ contactsDb[1] = SeedContacts
  /\ last.res.ret = <<SeedContacts[1]>>

\* b has the elements of a, each as many times
IsPermutation(a, b) ==
  /\ Len(a) = Len(b)
  /\ \A k \in DOMAIN a :
       Cardinality({j \in DOMAIN a : a[j] = a[k]}) = Cardinality({j \in DOMAIN b : b[j] = a[k]})

\* no element comes before one that the key puts in front of it
Ordered(array, sortBy, direction) ==
  \A a, b \in DOMAIN array :
    a < b => IF direction = "asc" THEN ~KeyLess(array[b], array[a], sortBy)
             ELSE ~KeyLess(array[a], array[b], sortBy)

\* C19: sortContacts(contacts, field, direction) returns an array with the
\* elements of contacts, in the order of the key (name and email compared
\* without regard to case, createdAt by time; ascending for 'asc',
\* descending for 'desc'), and contacts has its elements in their order
\* after the call, for every field and direction
C19_Sort ==
  [][Applying("contactService.sortContacts")
     => (/\ applied'.result.err = NoError
         /\ IsPermutation(applied'.input.contacts, applied'.result.sorted)
         /\ Ordered(applied'.result.sorted, applied'.input.sortBy, applied'.input.direction)
         /\ applied'.result.contacts = applied'.input.contacts)]_vars

\* three contacts given in the order Bo, al, Ann Lee have been sorted by
\* name ascending: returned in the order al, Ann Lee, Bo, the array given
\* still in its order
C19_Witness ==
  /\ applied.function = "contactService.sortContacts"
  /\ applied.input.sortBy = "name"
  /\ applied.input.direction = "asc"
  /\ Len(applied.input.contacts) = 3
  /\ applied.input.contacts[1] = SeedContacts[2]
  /\ applied.input.contacts[3] = SeedContacts[1]
  /\ applied.result.sorted
       = <<applied.input.contacts[2], SeedContacts[1], SeedContacts[2]>>
  /\ applied.result.contacts = applied.input.contacts

\* the status that goes with the kind of a failure: validation, not
\* found, any other
StatusOf(error) ==
  IF Head(error) = "Validation failed" THEN 400
  ELSE IF error[Len(error)] = "not found" THEN 404
  ELSE 500

\* a failure of the service call is answered with success false, the
\* message of the failure and the status of its kind
Mapped(r, res) ==
  r.err # NoError
  => (~res.success /\ res.error = r.err /\ res.status = StatusOf(r.err))

\* the service call succeeded and the answer is success with this status
Answered(r, res, status) ==
  r.err = NoError => (res.success /\ res.status = status)

\* the task the service returned is not of the contact of the path, and
\* the answer is 403, success false
Refused(r, contactId, res) ==
  (r.err = NoError /\ r.ret # <<>> /\ r.ret[1].contactId # Str(contactId))
  => (~res.success /\ res.status = 403 /\ res.error = NotOwned)

\* the step serves this request
Asked(op, contactId, taskId) ==
  /\ Calling
  /\ last'.op = op
  /\ last'.contactId = contactId
  /\ last'.taskId = taskId

\* C20: every handler answers a failure of its service call with success
\* false and the status of the failure's kind: 400 for a validation failure,
\* 404 for not found, 500 for any other error; a task that is not of the
\* contact of the path is answered 403; a create that succeeds is answered
\* 201
C20_StatusByFailure ==
  [][/\ \A i \in DOMAIN contactsDb, body \in CreateContactBodies, wok \in BOOLEAN :
          (Asked("POST /api/contacts", <<>>, <<>>) /\ POST_contacts(i, body, wok))
          => LET r == csvc_createContact(ContactsModule(i), body, now, wok)
             IN  Mapped(r, last'.res) /\ Answered(r, last'.res, 201)
     /\ \A i \in DOMAIN contactsDb, contactId \in PathIds, body \in UpdateContactBodies,
           wok \in BOOLEAN :
          (/\ Asked("PUT /api/contacts/[contactId]", contactId, <<>>)
           /\ PUT_contact(i, contactId, body, wok))
          => Mapped(csvc_updateContact(ContactsModule(i), contactId, body, wok), last'.res)
     /\ \A i \in DOMAIN contactsDb, contactId \in PathIds, wok \in BOOLEAN :
          (/\ Asked("DELETE /api/contacts/[contactId]", contactId, <<>>)
           /\ DELETE_contact(i, contactId, wok))
          => Mapped(csvc_deleteContact(ContactsModule(i), contactId, wok), last'.res)
     /\ \A contactId \in PathIds, body \in CreateTaskBodies, wok \in BOOLEAN :
          (/\ Asked("POST /api/contacts/[contactId]/tasks", contactId, <<>>)
           /\ POST_tasks(contactId, body, wok))
          => LET r == tsvc_createTask(TasksModule, SpreadContactId(contactId, body), now, wok)
             IN  Mapped(r, last'.res) /\ Answered(r, last'.res, 201)
     /\ \A contactId \in PathIds, taskId \in PathIds, body \in UpdateTaskBodies,
           wok \in BOOLEAN :
          (/\ Asked("PUT /api/contacts/[contactId]/tasks/[taskId]", contactId, taskId)
           /\ PUT_task(contactId, taskId, body, wok))
          => LET r == tsvc_updateTask(TasksModule, taskId, body, now, wok)
             IN  Mapped(r, last'.res) /\ Refused(r, contactId, last'.res)
     /\ \A contactId \in PathIds, taskId \in PathIds, wok \in BOOLEAN :
          (/\ Asked("PATCH /api/contacts/[contactId]/tasks/[taskId]", contactId, taskId)
           /\ PATCH_task(contactId, taskId, wok))
          => LET r == tsvc_toggleTask(TasksModule, taskId, now, wok)
             IN  Mapped(r, last'.res) /\ Refused(r, contactId, last'.res)
     /\ \A contactId \in PathIds, taskId \in PathIds, wok \in BOOLEAN :
          (/\ Asked("DELETE /api/contacts/[contactId]/tasks/[taskId]", contactId, taskId)
           /\ DELETE_task(contactId, taskId, wok))
          => LET task == tsvc_getTaskById(TasksModule, taskId)
                 r == tsvc_deleteTask(task.m, taskId, wok)
                 owned == task.ret # <<>> /\ task.ret[1].contactId = Str(contactId)
             IN  /\ Mapped(task, last'.res)
                 /\ Refused(task, contactId, last'.res)
                 /\ (task.err = NoError /\ owned) => Mapped(r, last'.res)]_vars

\* a POST /api/contacts with a valid body has just been answered 500: the
\* write of the contacts file failed
C20_Witness ==
  /\ last.op = "POST /api/contacts"
  /\ ~last.res.success
  /\ last.res.status = 500
  /\ last.res.error = ContactSaveFailed
  /\ contactsIsInitialized[1]

\* the map field -> message of a list of validation errors
FieldMap(errors) ==
  {[field |-> <<errors[k].field>>, message |-> errors[k].message] : k \in DOMAIN errors}

\* C21: the string the services build from a non-empty list of validation
\* errors with distinct field names is parsed by parseValidationErrors back
\* into the map from each field to its message, and a message that does not
\* contain 'Validation failed:' is parsed to the empty map
C21_ParseRoundTrip ==
  [][Applying("parseValidationErrors") =>
       LET errorMessage == applied'.input
           parsed == applied'.result
       IN  /\ \A errors \in ValidationErrorLists :
                errorMessage = ValidationFailed(errors) => parsed = FieldMap(errors)
           /\ ~Includes(errorMessage, <<"Validation failed", ":">>) => parsed = {}]_vars

\* two errors were parsed back, one of them with a colon in its message
C21_Witness ==
  /\ applied.function = "parseValidationErrors"
  /\ Cardinality(applied.result) >= 2
  /\ \E e \in applied.result :
       e.field = <<"dueDate">> /\ Includes(e.message, <<":">>)

CreatedAfterDelete(store) ==
  /\ Calling
  /\ last'.op = store \o ".create" \o (IF store = "contacts" THEN "Contact" ELSE "Task")
  /\ last'.res.success
  /\ last.op = store \o ".delete" \o (IF store = "contacts" THEN "Contact" ELSE "Task")
  /\ last.res.flag

\* C23 as stated, for a create that follows a delete: the id the create
\* returns is numerically greater than the id of the entity just deleted,
\* an id the store had assigned before
C23_NeverReused ==
  [][/\ CreatedAfterDelete("contacts")
          => IdNumber(last'.res.ret[1].id) > IdNumber(last.contactId)
     /\ CreatedAfterDelete("tasks")
          => IdNumber(last'.res.ret[1].id) > IdNumber(last.taskId)]_vars

\* C23 amended: the id a create returns is numerically greater than every id
\* the store holds at that moment, and only those: after the delete of the
\* entity with the largest id, the next create returns an id that is not
\* greater than the deleted one (the same id, when the ids held are 1..n)
C23_AbovePresentIds ==
  [][/\ \A i \in DOMAIN contactsDb :
          (Calling /\ last'.op = "contacts.createContact" /\ last'.res.success)
          => /\ IdNumber(last'.res.ret[1].id) > LargestId(Contacts(i))
             /\ (CreatedAfterDelete("contacts")
                    /\ IdNumber(last.contactId) > LargestId(Contacts(i)))
                => IdNumber(last'.res.ret[1].id) <= IdNumber(last.contactId)
     /\ (Calling /\ last'.op = "tasks.createTask" /\ last'.res.success)
          => /\ IdNumber(last'.res.ret[1].id) > LargestId(Tasks)
             /\ (CreatedAfterDelete("tasks") /\ IdNumber(last.taskId) > LargestId(Tasks))
                => IdNumber(last'.res.ret[1].id) <= IdNumber(last.taskId)]_vars

\* the second call, a create, returned id 2 to a store that holds contact 1
\* of the file and no longer contact 2 of the file
C23_Witness ==
  /\ calls = 2
  /\ last.op = "contacts.createContact"
  /\ last.res.success
  /\ last.res.ret[1].id = <<"2">>
  /\ Len(Contacts(1)) = 2
  /\ Contacts(1)[1] = SeedContacts[1]
  /\ Contacts(1)[2].name = AnnLee

\* C24: deleteContact(id) and deleteTask(id) of the stores, given an id the
\* store does not hold, return false without an error and change neither the
\* collection nor the file; given an id the store holds, they remove that
\* entity and no other, write the collection to the file and return true
C24_Delete ==
  [][/\ \A i \in DOMAIN contactsDb :
          (Calling /\ last'.op = "contacts.deleteContact")
          => LET id == last'.contactId
                 stored == Contacts(i)
             IN  /\ last'.res.error = NoError
                 /\ IF Absent(stored, id)
                      THEN ~last'.res.flag /\ ContactsKept(i)
                      ELSE /\ last'.res.flag
                           /\ contactsDb'[i] = Without(stored, {Position(stored, id)})
                           /\ contactsFile' = Document(contactsDb'[i])
     /\ (Calling /\ last'.op = "tasks.deleteTask")
          => LET id == last'.taskId
             IN  /\ last'.res.error = NoError
                 /\ IF Absent(Tasks, id)
                      THEN ~last'.res.flag /\ TasksKept
                      ELSE /\ last'.res.flag
                           /\ tasksDb' = Without(Tasks, {Position(Tasks, id)})
                           /\ tasksFile' = Document(tasksDb')]_vars

\* deleteContact('2') has returned false to a store that holds contact 1
\* only and whose file is the same
C24_Witness ==
  /\ last.op = "contacts.deleteContact"
  /\ last.contactId = <<"2">>
  /\ last.res.success
  /\ ~last.res.flag
  /\ Len(Contacts(1)) = 1
  /\ Contacts(1)[1].id = <<"1">>
  /\ contactsFile = Document(Contacts(1))

\* the reads and writes of the contacts store and of the tasks store, that is
\* every exported operation but resetDatabase
ContactStoreOperations ==
  ContactStoreCalls \cup {"contacts.getAllContacts", "contacts.getContactById",
                          "contacts.getContactByPhone", "contacts.searchContacts",
                          "contacts.getContactCount"}
TaskStoreOperations ==
  TaskStoreCalls \cup {"tasks.getAllTasks", "tasks.getTasksByContactId", "tasks.getTaskById",
                       "tasks.getTaskCount"}

\* C25: a store is initialized by its first read or write, whichever it is,
\* and is never uninitialized again; when the file cannot be loaded then, the
\* store is initialized all the same, with an empty collection, and the call
\* goes on as on an empty store: a read finds nothing, a delete returns
\* false, an update or toggle finds no entity, a create adds the first entity
C25_InitializedForGood ==
  [][/\ \A i \in DOMAIN contactsDb : contactsIsInitialized[i] => contactsIsInitialized'[i]
     /\ tasksIsInitialized => tasksIsInitialized'
     /\ (Calling /\ last'.op \in ContactStoreOperations)
          => \E i \in DOMAIN contactsDb : contactsIsInitialized'[i]
     /\ (Calling /\ last'.op \in TaskStoreOperations) => tasksIsInitialized'
     /\ \A i \in DOMAIN contactsDb :
          (/\ Calling
           /\ last'.op \in ContactStoreOperations
           /\ ~contactsIsInitialized[i]
           /\ ~contactsFile.ok)
          => /\ contactsIsInitialized'[i]
             /\ last'.res.ret = <<>> \/ last'.op = "contacts.createContact"
             /\ ~last'.res.flag
             /\ last'.res.count = 0
             /\ last'.res.error
                  \in {NoError, NotFound("Contact", last'.contactId), ContactSaveFailed}
             /\ last'.res.error = ContactSaveFailed => last'.op = "contacts.createContact"
             /\ IsNotFound(last'.res.error, "Contact", last'.contactId)
                  <=> last'.op = "contacts.updateContact"
             /\ contactsDb'[i] = IF last'.op = "contacts.createContact"
                                   THEN <<contactsDb'[i][1]>> ELSE <<>>
     /\ (/\ Calling
         /\ last'.op \in TaskStoreOperations
         /\ ~tasksIsInitialized
         /\ ~tasksFile.ok)
          => /\ tasksIsInitialized'
             /\ last'.res.ret = <<>> \/ last'.op = "tasks.createTask"
             /\ ~last'.res.flag
             /\ last'.res.count = 0
             /\ last'.res.error \in {NoError, NotFound("Task", last'.taskId), TaskSaveFailed}
             /\ last'.res.error = TaskSaveFailed => last'.op = "tasks.createTask"
             /\ IsNotFound(last'.res.error, "Task", last'.taskId)
                  <=> last'.op \in {"tasks.updateTask", "tasks.toggleTask"}
             /\ tasksDb' = IF last'.op = "tasks.createTask" THEN <<tasksDb'[1]>> ELSE <<>>]_vars

\* the first call, getContactCount, found no readable file: it returned 0 and
\* the store is initialized and empty
C25_Witness ==
  /\ calls = 1
  /\ last.op = "contacts.getContactCount"
  /\ last.res.success
  /\ last.res.count = 0
  /\ contactsFile = Unreadable
  /\ contactsIsInitialized[1]
  /\ contactsDb[1] = <<>>

\* the step is a call of the contacts store, or of the tasks store, that
\* ended with the persistence error
ContactWriteFailed == Calling /\ last'.res.error = ContactSaveFailed
TaskWriteFailed == Calling /\ last'.res.error = TaskSaveFailed

ToggledAfterCreate ==
  /\ Calling
  /\ last'.op = "tasks.toggleTask"
  /\ last'.res.success
  /\ last.op = "tasks.createTask"
  /\ last.res.success
  /\ last.res.ret[1].id = last'.taskId

\* C28 as stated, its last part: the toggle of the task just created leaves
\* it with an updatedAt strictly greater than its createdAt
C28_UpdatedAtGreater ==
  [][ToggledAfterCreate => last'.res.ret[1].updatedAt > last'.res.ret[1].createdAt]_vars

\* C28 amended: createTask returns and stores a task with completed false
\* whatever the input holds, with updatedAt equal to createdAt; the toggle of
\* that task returns and stores it with completed true and an updatedAt that
\* is the time of the toggle, not less than createdAt, and greater exactly
\* when the clock has advanced since the create
C28_CreatedOpenThenToggled ==
  [][/\ (Calling /\ last'.op = "tasks.createTask" /\ last'.res.success)
          => LET task == last'.res.ret[1]
             IN  /\ task.completed = False
                 /\ task.updatedAt = task.createdAt
                 /\ task.createdAt = now
                 /\ tasksDb'[Len(tasksDb')] = task
     /\ ToggledAfterCreate
          => LET task == last'.res.ret[1]
             IN  /\ task.completed = True
                 /\ task.createdAt = last.res.ret[1].createdAt
                 /\ task.updatedAt = now
                 /\ task.updatedAt >= task.createdAt
                 /\ task.updatedAt > task.createdAt <=> now > last.res.ret[1].createdAt
                 /\ tasksDb'[Position(tasksDb', last'.taskId)] = task]_vars

\* a task created after the clock had advanced was toggled before it
\* advanced again: completed is true and updatedAt equals createdAt
C28_Witness ==
  /\ last.op = "tasks.toggleTask"
  /\ last.res.success
  /\ last.res.ret[1].completed = True
  /\ last.res.ret[1].createdAt = MaxTime
  /\ last.res.ret[1].updatedAt = last.res.ret[1].createdAt

\* C29: a PUT or PATCH of a task that is answered with the ownership failure
\* (403) leaves the tasks collection and the tasks file as they were
C29_RejectedUnchanged ==
  [][(/\ Calling
      /\ last'.op \in {"PUT /api/contacts/[contactId]/tasks/[taskId]",
                       "PATCH /api/contacts/[contactId]/tasks/[taskId]"}
      /\ last'.res.status = 403)
     => TasksKept]_vars

\* instance i runs the saveToFile() of the write it began
Persisting(i) == contactsSaving[i] # <<>> /\ contactsSaving'[i] = <<>>

\* the contacts that db holds and the file does not
Unsaved(db, file) ==
  {k \in DOMAIN db : \A n \in DOMAIN file.rows : file.rows[n] # db[k]}

\* C27: when two writers have each changed their own array before either has
\* written the file, the write of the first puts its whole array in the file
\* and leaves the array of the second as it is, and the write of the second
\* puts its whole array in the file: the file is then the snapshot of the
\* last writer, and what the first had written that the snapshot lacks is
\* gone from the file (nothing is merged)
C27_LastWriteWins ==
  [][\A i \in DOMAIN contactsDb :
       Persisting(i)
       => /\ contactsFile' = Document(contactsDb[i])
          /\ contactsDb' = contactsDb
          /\ \A j \in DOMAIN contactsDb \ {i} :
               /\ contactsSaving[j] # <<>> => contactsSaving'[j] = contactsSaving[j]
               /\ \A n \in DOMAIN contactsFile.rows :
                    (/\ contactsFile.rows[n] \in {contactsDb[j][k] : k \in DOMAIN contactsDb[j]}
                     /\ contactsFile.rows[n] \notin {contactsDb[i][k] : k \in DOMAIN contactsDb[i]})
                    => contactsFile.rows[n]
                         \notin {contactsFile'.rows[k] : k \in DOMAIN contactsFile'.rows}]_vars

\* two calls were made, a createContact in each process on a file that held
\* contact 1, and both have written: each process holds contact 1 and the
\* contact it created, with the same id 2, and the file is the array of
\* process 2, without the contact of process 1
C27_Witness ==
  /\ calls = 2
  /\ DOMAIN contactsDb = {1, 2}
  /\ \A i \in DOMAIN contactsDb :
       /\ contactsSaving[i] = <<>>
       /\ Len(contactsDb[i]) = 2
       /\ contactsDb[i][1] = SeedContacts[1]
       /\ contactsDb[i][2].id = <<"2">>
  /\ last.op = "contacts.createContact"
  /\ last.res.success
  /\ contactsDb[1][2] # contactsDb[2][2]
  /\ contactsFile = Document(contactsDb[2])
  /\ Unsaved(contactsDb[1], contactsFile) = {2}

====
